---- MODULE Spec2Model ----
(***************************************************************************)
(* Model of the RISC-V toolchain: the assembler (src/src/backend/          *)
(* assembler.py), the instruction decoder (src/src/backend/                *)
(* instructions.py), the loader handshake (src/src/backend/loader.py) and  *)
(* the streaming telemetry parser (src/gui/main.py).                       *)
(*                                                                         *)
(* A 32-bit machine word is the set of its set bit positions: Python's     *)
(* |, & and shifts become union, intersection and translation, exactly,    *)
(* with no arithmetic overflow.  Small quantities (register indices,       *)
(* signed immediates, byte values, lengths) are integers.                  *)
(***************************************************************************)
EXTENDS Integers, Sequences, FiniteSets, TLC

VARIABLES
    c_phase, c_line, c_pc, c_labels, c_enc, c_word, c_instr, c_reenc,
    a_phase, a_src, a_lines, a_labels, a_instrs, a_code, a_payload, a_result, a_file,
    l_pc, l_port, l_payload, l_is_instr, l_data, l_wire, l_opened, l_echo, l_ack,
    l_result,
    p_input, p_pos, p_buffer, p_history, e_read,
    d_rx, d_sent, d_seen, d_run, d_count,
    s_state, s_memory, s_tasks,
    x_pc, x_got, x_last_register_file, x_log, x_result

codecVars  == <<c_phase, c_line, c_pc, c_labels, c_enc, c_word, c_instr, c_reenc>>
asmVars    == <<a_phase, a_src, a_lines, a_labels, a_instrs, a_code, a_payload, a_result,
                a_file>>
loaderVars == <<l_pc, l_port, l_payload, l_is_instr, l_data, l_wire, l_opened, l_echo,
                l_ack, l_result>>
parserVars == <<p_input, p_pos, p_buffer, p_history, e_read>>
deviceVars == <<d_rx, d_sent, d_seen, d_run, d_count>>
stepVars   == <<s_state, s_memory, s_tasks>>
contVars   == <<x_pc, x_got, x_last_register_file, x_log, x_result>>
sessionVars == <<deviceVars, stepVars, contVars>>
vars == <<codecVars, asmVars, loaderVars, parserVars, sessionVars>>

-----------------------------------------------------------------------------
(* Bit-level primitives                                                    *)

\* The bits of a non-negative integer below 2^31.
Bits(n) == {i \in 0..30 : (n \div (2^i)) % 2 = 1}

\* v << k and v >> k on bit sets.
Shl(s, k) == {i + k : i \in s}
Shr(s, k) == {i - k : i \in {j \in s : j >= k}}

\* The bits lo .. lo+n-1 of s, moved down to 0 .. n-1: (s >> lo) & (2^n - 1).
Field(s, lo, n) == {i - lo : i \in {j \in s : j >= lo /\ j < lo + n}}

RECURSIVE Val(_)
\* The integer a bit set denotes (bits 0..30 only).
Val(s) == IF s = {} THEN 0
          ELSE LET i == CHOOSE j \in s : TRUE IN (2^i) + Val(s \ {i})

\* Python's  x & (2^bits - 1)  for an integer x of either sign.
MaskInt(x, bits) == x % (2^bits)

\* A word written as two 16-bit halves: (hi << 16) | lo.
W(hi, lo) == Shl(Bits(hi), 16) \cup Bits(lo)

\* struct.pack('<I', val): the four bytes of a word, least significant first.
PackLE(w) == [k \in 1..4 |-> Val(Field(w, 8 * (k - 1), 8))]

\* struct.unpack('<I', b): a word from four bytes, least significant first.
UnpackLE(b) == {i \in 0..31 : (b[(i \div 8) + 1] \div (2^(i % 8))) % 2 = 1}

RECURSIVE Flatten(_)
\* b"".join(seq of byte strings)
Flatten(ss) == IF ss = <<>> THEN <<>> ELSE Head(ss) \o Flatten(Tail(ss))

-----------------------------------------------------------------------------
(* Assembler: architecture tables (assembler.py, section 2)                *)

\* REGISTERS: ABI names and x0..x31, each with its index.
REGISTERS ==
    ("zero" :> 0) @@ ("ra" :> 1) @@ ("sp" :> 2) @@ ("gp" :> 3) @@ ("tp" :> 4)
    @@ ("t0" :> 5) @@ ("t1" :> 6) @@ ("t2" :> 7) @@ ("s0" :> 8) @@ ("fp" :> 8)
    @@ ("s1" :> 9) @@ ("a0" :> 10) @@ ("a1" :> 11) @@ ("a2" :> 12) @@ ("a3" :> 13)
    @@ ("a4" :> 14) @@ ("a5" :> 15) @@ ("a6" :> 16) @@ ("a7" :> 17) @@ ("s2" :> 18)
    @@ ("s3" :> 19) @@ ("s4" :> 20) @@ ("s5" :> 21) @@ ("s6" :> 22) @@ ("s7" :> 23)
    @@ ("s8" :> 24) @@ ("s9" :> 25) @@ ("s10" :> 26) @@ ("s11" :> 27) @@ ("t3" :> 28)
    @@ ("t4" :> 29) @@ ("t5" :> 30) @@ ("t6" :> 31)
    @@ ("x0" :> 0) @@ ("x1" :> 1) @@ ("x2" :> 2) @@ ("x3" :> 3) @@ ("x4" :> 4)
    @@ ("x5" :> 5) @@ ("x6" :> 6) @@ ("x7" :> 7) @@ ("x8" :> 8) @@ ("x9" :> 9)
    @@ ("x10" :> 10) @@ ("x11" :> 11) @@ ("x12" :> 12) @@ ("x13" :> 13)
    @@ ("x14" :> 14) @@ ("x15" :> 15) @@ ("x16" :> 16) @@ ("x17" :> 17)
    @@ ("x18" :> 18) @@ ("x19" :> 19) @@ ("x20" :> 20) @@ ("x21" :> 21)
    @@ ("x22" :> 22) @@ ("x23" :> 23) @@ ("x24" :> 24) @@ ("x25" :> 25)
    @@ ("x26" :> 26) @@ ("x27" :> 27) @@ ("x28" :> 28) @@ ("x29" :> 29)
    @@ ("x30" :> 30) @@ ("x31" :> 31)

ASM_TEMP_REG == "t6"

\* One row of INSTRUCTIONS; -1 stands for a key the row does not have.
Info(t, op, f3, f7, f12) ==
    [type |-> t, opcode |-> op, funct3 |-> f3, funct7 |-> f7, funct12 |-> f12]

INSTRUCTIONS ==
    ("add" :> Info("R", 51, 0, 0, -1)) @@ ("sub" :> Info("R", 51, 0, 32, -1))
    @@ ("sll" :> Info("R", 51, 1, 0, -1)) @@ ("slt" :> Info("R", 51, 2, 0, -1))
    @@ ("sltu" :> Info("R", 51, 3, 0, -1)) @@ ("xor" :> Info("R", 51, 4, 0, -1))
    @@ ("srl" :> Info("R", 51, 5, 0, -1)) @@ ("sra" :> Info("R", 51, 5, 32, -1))
    @@ ("or" :> Info("R", 51, 6, 0, -1)) @@ ("and" :> Info("R", 51, 7, 0, -1))
    @@ ("addi" :> Info("I", 19, 0, -1, -1)) @@ ("slti" :> Info("I", 19, 2, -1, -1))
    @@ ("sltiu" :> Info("I", 19, 3, -1, -1)) @@ ("xori" :> Info("I", 19, 4, -1, -1))
    @@ ("ori" :> Info("I", 19, 6, -1, -1)) @@ ("andi" :> Info("I", 19, 7, -1, -1))
    @@ ("slli" :> Info("I_SHIFT", 19, 1, 0, -1))
    @@ ("srli" :> Info("I_SHIFT", 19, 5, 0, -1))
    @@ ("srai" :> Info("I_SHIFT", 19, 5, 32, -1))
    @@ ("lb" :> Info("I_LOAD", 3, 0, -1, -1)) @@ ("lh" :> Info("I_LOAD", 3, 1, -1, -1))
    @@ ("lw" :> Info("I_LOAD", 3, 2, -1, -1)) @@ ("lbu" :> Info("I_LOAD", 3, 4, -1, -1))
    @@ ("lhu" :> Info("I_LOAD", 3, 5, -1, -1))
    @@ ("jalr" :> Info("I_LOAD", 103, 0, -1, -1))
    @@ ("sb" :> Info("S", 35, 0, -1, -1)) @@ ("sh" :> Info("S", 35, 1, -1, -1))
    @@ ("sw" :> Info("S", 35, 2, -1, -1))
    @@ ("beq" :> Info("B", 99, 0, -1, -1)) @@ ("bne" :> Info("B", 99, 1, -1, -1))
    @@ ("lui" :> Info("U", 55, -1, -1, -1)) @@ ("jal" :> Info("J", 111, -1, -1, -1))
    @@ ("ecall" :> Info("SYS", 115, 0, -1, 0))

-----------------------------------------------------------------------------
(* Source text.  A line is its optional label, its mnemonic and its operand *)
(* tokens (what re.split on commas, parentheses and blanks leaves).  A     *)
(* token is an identifier ("id": s is its text), an x followed by an       *)
(* integer literal ("xnum": n is int(s[1:])), or an integer literal        *)
(* ("imm": n is its value, s tells a plain decimal from another base).     *)

Id(name)       == [k |-> "id", s |-> name, n |-> 0]
\* A register spelling together with the index its author means by it.
Reg(name, idx) == [k |-> "id", s |-> name, n |-> idx]
XNum(name, v)  == [k |-> "xnum", s |-> name, n |-> v]
Imm(v)         == [k |-> "imm", s |-> "dec", n |-> v]
HexImm(v)      == [k |-> "imm", s |-> "hex", n |-> v]
\* A literal of value n + 2^32 (from 2^31 up to 2^32 - 1, n negative), kept
\* as n: the assembler uses an immediate only modulo a power of two up to
\* 2^32, where n and the value agree, and in the range test of li.
BigImm(n)      == [k |-> "imm", s |-> "big", n |-> n]

Line(lbl, op, args) == [lbl |-> lbl, op |-> op, args |-> args]
Instr(op, args)     == Line("", op, args)
LabelLine(name)     == Line(name, "", <<>>)

\* str.lower() on the label spellings the model uses.
Lower(s) == CASE s = "Loop" -> "loop"
              [] s = "END" -> "end"
              [] OTHER -> s

\* str.isdigit(): a non-empty run of decimal digits (no sign, no 0x).
IsDigit(tok) == tok.k = "imm" /\ tok.s = "dec" /\ tok.n >= 0

\* parse_reg: the table first, then int(s[1:]) for anything starting with x.
RegOk(tok)    == tok.s \in DOMAIN REGISTERS \/ tok.k = "xnum"
parse_reg(tok) == IF tok.s \in DOMAIN REGISTERS THEN REGISTERS[tok.s] ELSE tok.n

\* parse_imm: int(s, 0).
ImmOk(tok)    == tok.k = "imm"
parse_imm(tok) == tok.n

\* signed_int(val, bits)
signed_int(val, bits) ==
    LET v == IF val >= 2^(bits - 1) THEN val - 2^bits ELSE val
    IN  MaskInt(v, bits)

-----------------------------------------------------------------------------
(* Assembler pass 2: the encoding switch (assembler.py, assemble)          *)

EncFail    == [ok |-> FALSE, val |-> {}]
EncOk(val) == [ok |-> TRUE, val |-> val]

\* parts[i] exists for every i up to n (parts[0] is the mnemonic, p the rest).
HasParts(p, n) == Len(p) >= n

\* labels[tok.lower()] is defined.
LabelOk(tok, labels) == tok.k = "id" /\ Lower(tok.s) \in DOMAIN labels
LabelOf(tok, labels) == labels[Lower(tok.s)]

\* The fields common to the register formats: rs2, rs1, funct3, rd, opcode.
Rs2At(r)     == Shl(Bits(r), 20)
Rs1At(r)     == Shl(Bits(r), 15)
Funct3At(f)  == Shl(Bits(f), 12)
RdAt(r)      == Shl(Bits(r), 7)

\* EncodeR with the two source registers in each other's field.
EncodeR_SwappedSources(info, p) ==
    IF ~(HasParts(p, 3) /\ RegOk(p[1]) /\ RegOk(p[2]) /\ RegOk(p[3]))
    THEN EncFail
    ELSE LET rd == parse_reg(p[1])  rs1 == parse_reg(p[2])  rs2 == parse_reg(p[3])
         IN  EncOk(Shl(Bits(info.funct7), 25) \cup Rs2At(rs1) \cup Rs1At(rs2)
                   \cup Funct3At(info.funct3) \cup RdAt(rd) \cup Bits(info.opcode))

EncodeR(info, p) ==
    IF ~(HasParts(p, 3) /\ RegOk(p[1]) /\ RegOk(p[2]) /\ RegOk(p[3]))
    THEN EncFail
    ELSE LET rd == parse_reg(p[1])  rs1 == parse_reg(p[2])  rs2 == parse_reg(p[3])
         IN  EncOk(Shl(Bits(info.funct7), 25) \cup Rs2At(rs2) \cup Rs1At(rs1)
                   \cup Funct3At(info.funct3) \cup RdAt(rd) \cup Bits(info.opcode))

EncodeI(info, p) ==
    IF ~(HasParts(p, 3) /\ RegOk(p[1]) /\ RegOk(p[2]) /\ ImmOk(p[3]))
    THEN EncFail
    ELSE LET rd == parse_reg(p[1])  rs1 == parse_reg(p[2])  imm == parse_imm(p[3])
         IN  EncOk(Shl(Bits(signed_int(imm, 12)), 20) \cup Rs1At(rs1)
                   \cup Funct3At(info.funct3) \cup RdAt(rd) \cup Bits(info.opcode))

EncodeIShift(info, p) ==
    IF ~(HasParts(p, 3) /\ RegOk(p[1]) /\ RegOk(p[2]) /\ ImmOk(p[3]))
    THEN EncFail
    ELSE LET rd == parse_reg(p[1])  rs1 == parse_reg(p[2])
             shamt == MaskInt(parse_imm(p[3]), 5)
         IN  EncOk(Shl(Bits(info.funct7), 25) \cup Shl(Bits(shamt), 20) \cup Rs1At(rs1)
                   \cup Funct3At(info.funct3) \cup RdAt(rd) \cup Bits(info.opcode))

\* rd, rs1, imm when the line has exactly three operands, the second is not
\* all digits and the third is; otherwise rd, imm, rs1 (the imm(rs1) form).
EncodeILoad(info, p) ==
    IF ~(HasParts(p, 1) /\ RegOk(p[1])) THEN EncFail
    ELSE LET regFirst == Len(p) = 3 /\ ~IsDigit(p[2]) /\ IsDigit(p[3])
             rd == parse_reg(p[1])
         IN  IF regFirst
             THEN IF ~(RegOk(p[2]) /\ ImmOk(p[3])) THEN EncFail
                  ELSE EncOk(Shl(Bits(signed_int(parse_imm(p[3]), 12)), 20)
                             \cup Rs1At(parse_reg(p[2])) \cup Funct3At(info.funct3)
                             \cup RdAt(rd) \cup Bits(info.opcode))
             ELSE IF ~(Len(p) >= 3 /\ ImmOk(p[2]) /\ RegOk(p[3])) THEN EncFail
                  ELSE EncOk(Shl(Bits(signed_int(parse_imm(p[2]), 12)), 20)
                             \cup Rs1At(parse_reg(p[3])) \cup Funct3At(info.funct3)
                             \cup RdAt(rd) \cup Bits(info.opcode))

EncodeS(info, p) ==
    IF ~(HasParts(p, 3) /\ RegOk(p[1]) /\ ImmOk(p[2]) /\ RegOk(p[3]))
    THEN EncFail
    ELSE LET rs2 == parse_reg(p[1])  rs1 == parse_reg(p[3])
             imm == Bits(signed_int(parse_imm(p[2]), 12))
         IN  EncOk(Shl(Field(imm, 5, 7), 25) \cup Rs2At(rs2) \cup Rs1At(rs1)
                   \cup Funct3At(info.funct3) \cup Shl(Field(imm, 0, 5), 7)
                   \cup Bits(info.opcode))

\* EncodeB with the offset taken from the following instruction (pc + 4).
EncodeB_RelativeToNext(info, p, pc, labels) ==
    IF ~(HasParts(p, 3) /\ RegOk(p[1]) /\ RegOk(p[2]) /\ LabelOk(p[3], labels))
    THEN EncFail
    ELSE LET rs1 == parse_reg(p[1])  rs2 == parse_reg(p[2])
             offset == Bits(signed_int(LabelOf(p[3], labels) - (pc + 4), 13))
         IN  EncOk(Shl(Field(offset, 12, 1), 31) \cup Shl(Field(offset, 5, 6), 25)
                   \cup Rs2At(rs2) \cup Rs1At(rs1) \cup Funct3At(info.funct3)
                   \cup Shl(Field(offset, 1, 4), 8) \cup Shl(Field(offset, 11, 1), 7)
                   \cup Bits(info.opcode))

EncodeB(info, p, pc, labels) ==
    IF ~(HasParts(p, 3) /\ RegOk(p[1]) /\ RegOk(p[2]) /\ LabelOk(p[3], labels))
    THEN EncFail
    ELSE LET rs1 == parse_reg(p[1])  rs2 == parse_reg(p[2])
             offset == Bits(signed_int(LabelOf(p[3], labels) - pc, 13))
         IN  EncOk(Shl(Field(offset, 12, 1), 31) \cup Shl(Field(offset, 5, 6), 25)
                   \cup Rs2At(rs2) \cup Rs1At(rs1) \cup Funct3At(info.funct3)
                   \cup Shl(Field(offset, 1, 4), 8) \cup Shl(Field(offset, 11, 1), 7)
                   \cup Bits(info.opcode))

EncodeU(info, p) ==
    IF ~(HasParts(p, 2) /\ RegOk(p[1]) /\ ImmOk(p[2])) THEN EncFail
    ELSE LET rd == parse_reg(p[1])  imm == parse_imm(p[2])
         IN  EncOk(Shl(Bits(MaskInt(imm, 20)), 12) \cup RdAt(rd) \cup Bits(info.opcode))

EncodeJ(info, p, pc, labels) ==
    IF ~(HasParts(p, 2) /\ RegOk(p[1]) /\ LabelOk(p[2], labels))
    THEN EncFail
    ELSE LET rd == parse_reg(p[1])
             offset == Bits(signed_int(LabelOf(p[2], labels) - pc, 21))
         IN  EncOk(Shl(Field(offset, 20, 1), 31) \cup Shl(Field(offset, 1, 10), 21)
                   \cup Shl(Field(offset, 11, 1), 20) \cup Shl(Field(offset, 12, 8), 12)
                   \cup RdAt(rd) \cup Bits(info.opcode))

EncodeSys(info) ==
    EncOk(Shl(Bits(info.funct12), 20) \cup Funct3At(info.funct3) \cup Bits(info.opcode))

\* One iteration of the pass-2 loop: the word of the queued (pc, line), or a
\* failure when the mnemonic is not in INSTRUCTIONS (KeyError), an operand is
\* missing (IndexError), malformed (ValueError) or names no label (KeyError).
EncodeLine(pc, line, labels) ==
    IF line.op \notin DOMAIN INSTRUCTIONS THEN EncFail
    ELSE LET info == INSTRUCTIONS[line.op]
             p    == line.args
         IN  CASE info.type = "R"       -> EncodeR(info, p)
               [] info.type = "I"       -> EncodeI(info, p)
               [] info.type = "I_SHIFT" -> EncodeIShift(info, p)
               [] info.type = "I_LOAD"  -> EncodeILoad(info, p)
               [] info.type = "S"       -> EncodeS(info, p)
               [] info.type = "B"       -> EncodeB(info, p, pc, labels)
               [] info.type = "U"       -> EncodeU(info, p)
               [] info.type = "J"       -> EncodeJ(info, p, pc, labels)
               [] info.type = "SYS"     -> EncodeSys(info)

-----------------------------------------------------------------------------
(* Decoder (instructions.py).  None is written -1.                         *)

None == -1

OP_R_TYPE == 51
OP_I_TYPE == 19
OP_LOAD   == 3
OP_STORE  == 35
OP_BRANCH == 99
OP_JALR   == 103
OP_JAL    == 111
OP_LUI    == 55
OP_SYSTEM == 115

FORMAT_MAP ==
    (OP_R_TYPE :> "RType") @@ (OP_I_TYPE :> "IType") @@ (OP_LOAD :> "IType")
    @@ (OP_STORE :> "SType") @@ (OP_BRANCH :> "BType") @@ (OP_JALR :> "IType")
    @@ (OP_JAL :> "JType") @@ (OP_LUI :> "UType") @@ (OP_SYSTEM :> "SystemType")

MNEMONIC_MAP ==
    (<<OP_R_TYPE, 0, 0>> :> "add") @@ (<<OP_R_TYPE, 0, 32>> :> "sub")
    @@ (<<OP_R_TYPE, 1, 0>> :> "sll") @@ (<<OP_R_TYPE, 2, 0>> :> "slt")
    @@ (<<OP_R_TYPE, 3, 0>> :> "sltu") @@ (<<OP_R_TYPE, 4, 0>> :> "xor")
    @@ (<<OP_R_TYPE, 5, 0>> :> "srl") @@ (<<OP_R_TYPE, 5, 32>> :> "sra")
    @@ (<<OP_R_TYPE, 6, 0>> :> "or") @@ (<<OP_R_TYPE, 7, 0>> :> "and")
    @@ (<<OP_I_TYPE, 0, None>> :> "addi") @@ (<<OP_I_TYPE, 2, None>> :> "slti")
    @@ (<<OP_I_TYPE, 3, None>> :> "sltiu") @@ (<<OP_I_TYPE, 4, None>> :> "xori")
    @@ (<<OP_I_TYPE, 6, None>> :> "ori") @@ (<<OP_I_TYPE, 7, None>> :> "andi")
    @@ (<<OP_I_TYPE, 1, 0>> :> "slli") @@ (<<OP_I_TYPE, 5, 0>> :> "srli")
    @@ (<<OP_I_TYPE, 5, 32>> :> "srai")
    @@ (<<OP_LOAD, 0, None>> :> "lb") @@ (<<OP_LOAD, 1, None>> :> "lh")
    @@ (<<OP_LOAD, 2, None>> :> "lw") @@ (<<OP_LOAD, 4, None>> :> "lbu")
    @@ (<<OP_LOAD, 5, None>> :> "lhu") @@ (<<OP_JALR, 0, None>> :> "jalr")
    @@ (<<OP_STORE, 0, None>> :> "sb") @@ (<<OP_STORE, 1, None>> :> "sh")
    @@ (<<OP_STORE, 2, None>> :> "sw")
    @@ (<<OP_BRANCH, 0, None>> :> "beq") @@ (<<OP_BRANCH, 1, None>> :> "bne")
    @@ (<<OP_LUI, None, None>> :> "lui") @@ (<<OP_JAL, None, None>> :> "jal")
    @@ (<<OP_SYSTEM, 0, 0>> :> "ecall")

\* SignExtend that keeps the raw field.
SignExtend_KeepsRaw(raw, bits) == raw

\* raw if raw < 2^(bits-1) else raw - 2^bits
SignExtend(raw, bits) == IF raw < 2^(bits - 1) THEN raw ELSE raw - 2^bits

\* A decoded instruction.  Fields a format does not have are None; imm is a
\* signed integer, except for UType where it is the word & 0xFFFFF000 itself.
Dto(cls, word) ==
    [cls |-> cls, word |-> word, opcode |-> Val(Field(word, 0, 7)),
     mnemonic |-> "unknown",
     rd |-> None, funct3 |-> None, rs1 |-> None, rs2 |-> None, funct7 |-> None,
     imm |-> None]

RType(word) ==
    [Dto("RType", word) EXCEPT
        !.rd = Val(Field(word, 7, 5)), !.funct3 = Val(Field(word, 12, 3)),
        !.rs1 = Val(Field(word, 15, 5)), !.rs2 = Val(Field(word, 20, 5)),
        !.funct7 = Val(Field(word, 25, 7))]

SystemType(word) ==
    [Dto("SystemType", word) EXCEPT
        !.funct3 = Val(Field(word, 12, 3)), !.funct7 = Val(Field(word, 25, 7))]

IType(word) ==
    [Dto("IType", word) EXCEPT
        !.rd = Val(Field(word, 7, 5)), !.funct3 = Val(Field(word, 12, 3)),
        !.rs1 = Val(Field(word, 15, 5)),
        !.imm = SignExtend(Val(Field(word, 20, 12)), 12)]

SType(word) ==
    LET imm_4_0  == Field(word, 7, 5)
        imm_11_5 == Field(word, 25, 7)
        raw_imm  == Val(Shl(imm_11_5, 5) \cup imm_4_0)
    IN  [Dto("SType", word) EXCEPT
            !.funct3 = Val(Field(word, 12, 3)), !.rs1 = Val(Field(word, 15, 5)),
            !.rs2 = Val(Field(word, 20, 5)), !.imm = SignExtend(raw_imm, 12)]

\* BType with the sign of the offset dropped.
BType_Unsigned(word) ==
    LET imm_11   == Field(word, 7, 1)
        imm_4_1  == Field(word, 8, 4)
        imm_10_5 == Field(word, 25, 6)
        imm_12   == Field(word, 31, 1)
        raw_imm  == Val(Shl(imm_12, 12) \cup Shl(imm_11, 11)
                        \cup Shl(imm_10_5, 5) \cup Shl(imm_4_1, 1))
    IN  [Dto("BType", word) EXCEPT
            !.funct3 = Val(Field(word, 12, 3)), !.rs1 = Val(Field(word, 15, 5)),
            !.rs2 = Val(Field(word, 20, 5)), !.imm = raw_imm]

BType(word) ==
    LET imm_11   == Field(word, 7, 1)
        imm_4_1  == Field(word, 8, 4)
        imm_10_5 == Field(word, 25, 6)
        imm_12   == Field(word, 31, 1)
        raw_imm  == Val(Shl(imm_12, 12) \cup Shl(imm_11, 11)
                        \cup Shl(imm_10_5, 5) \cup Shl(imm_4_1, 1))
    IN  [Dto("BType", word) EXCEPT
            !.funct3 = Val(Field(word, 12, 3)), !.rs1 = Val(Field(word, 15, 5)),
            !.rs2 = Val(Field(word, 20, 5)), !.imm = SignExtend(raw_imm, 13)]

UType(word) ==
    [Dto("UType", word) EXCEPT
        !.rd = Val(Field(word, 7, 5)), !.imm = word \cap (12..31)]

JType(word) ==
    LET imm_19_12 == Field(word, 12, 8)
        imm_11    == Field(word, 20, 1)
        imm_10_1  == Field(word, 21, 10)
        imm_20    == Field(word, 31, 1)
        raw_imm   == Val(Shl(imm_20, 20) \cup Shl(imm_19_12, 12)
                         \cup Shl(imm_11, 11) \cup Shl(imm_10_1, 1))
    IN  [Dto("JType", word) EXCEPT
            !.rd = Val(Field(word, 7, 5)), !.imm = SignExtend(raw_imm, 21)]

BaseInstruction(word) == Dto("BaseInstruction", word)

\* dto_class(word) for the class FORMAT_MAP.get(opcode, BaseInstruction) names.
Instantiate(cls, word) ==
    CASE cls = "RType"      -> RType(word)
      [] cls = "IType"      -> IType(word)
      [] cls = "SType"      -> SType(word)
      [] cls = "BType"      -> BType(word)
      [] cls = "UType"      -> UType(word)
      [] cls = "JType"      -> JType(word)
      [] cls = "SystemType" -> SystemType(word)
      [] OTHER              -> BaseInstruction(word)

\* DecodeKeys without the two fallback keys.
DecodeKeys_ExactOnly(opcode, f3, f7) == << <<opcode, f3, f7>> >>

\* The keys decode tries, in order.
DecodeKeys(opcode, f3, f7) == << <<opcode, f3, f7>>, <<opcode, f3, None>>, <<opcode, None, None>> >>

\* ResolveMnemonic falling back to any mnemonic of the same opcode.
ResolveMnemonic_OpcodeDefault(keys) ==
    IF \E i \in 1..Len(keys) : keys[i] \in DOMAIN MNEMONIC_MAP
    THEN LET i == CHOOSE j \in 1..Len(keys) :
                    /\ keys[j] \in DOMAIN MNEMONIC_MAP
                    /\ \A h \in 1..(j - 1) : keys[h] \notin DOMAIN MNEMONIC_MAP
         IN  MNEMONIC_MAP[keys[i]]
    ELSE IF \E k \in DOMAIN MNEMONIC_MAP : k[1] = keys[1][1]
    THEN MNEMONIC_MAP[CHOOSE k \in DOMAIN MNEMONIC_MAP : k[1] = keys[1][1]]
    ELSE "unknown"

\* The mnemonic of the first key of keys present in MNEMONIC_MAP.
ResolveMnemonic(keys) ==
    IF \E i \in 1..Len(keys) : keys[i] \in DOMAIN MNEMONIC_MAP
    THEN LET i == CHOOSE j \in 1..Len(keys) :
                    /\ keys[j] \in DOMAIN MNEMONIC_MAP
                    /\ \A h \in 1..(j - 1) : keys[h] \notin DOMAIN MNEMONIC_MAP
         IN  MNEMONIC_MAP[keys[i]]
    ELSE "unknown"

\* InstructionFactory.decode
decode(word) ==
    LET opcode == Val(Field(word, 0, 7))
        cls    == IF opcode \in DOMAIN FORMAT_MAP THEN FORMAT_MAP[opcode]
                  ELSE "BaseInstruction"
        instr  == Instantiate(cls, word)
        f3     == instr.funct3
        f7     == IF opcode \in {OP_R_TYPE, OP_I_TYPE, OP_SYSTEM}
                  THEN Val(Field(word, 25, 7)) ELSE None
    IN  [instr EXCEPT !.mnemonic = ResolveMnemonic(DecodeKeys(opcode, f3, f7))]

-----------------------------------------------------------------------------
(* Codec specification: one instruction line is encoded by pass 2 and the  *)
(* word decoded (source -> encoded -> decoded), or one word is decoded and *)
(* the decoded fields are assembled again (word -> disassembled ->         *)
(* reassembled).                                                           *)

XNAMES == << "x0", "x1", "x2", "x3", "x4", "x5", "x6", "x7", "x8", "x9", "x10",
             "x11", "x12", "x13", "x14", "x15", "x16", "x17", "x18", "x19", "x20",
             "x21", "x22", "x23", "x24", "x25", "x26", "x27", "x28", "x29", "x30",
             "x31" >>
XReg(i) == Reg(XNAMES[i + 1], i)

\* Operand samples.
RegToks   == {Reg("zero", 0), Reg("x1", 1), Reg("a0", 10), Reg("t6", 31)}
Imm12Toks == {Imm(-2048), Imm(-1), Imm(0), Imm(15), Imm(2047), HexImm(255),
              Imm(2048), Imm(-2049)}
ShamtToks == {Imm(0), Imm(2), Imm(31)}
UpperToks == {Imm(0), Imm(1), HexImm(74565), HexImm(1048575), HexImm(1048576)}
\* Register spellings outside the table: x32 reaches int(s[1:]), q9 does not.
OverToks  == {XNum("x32", 32)}
WrongToks == {Id("q9")}
LabelAddrs == {0, 8, 12, 4104, 8192}
PcSample   == {0, 8, 16, 4104}

OpsOfType(t) == {m \in DOMAIN INSTRUCTIONS : INSTRUCTIONS[m].type = t}

CodecLines ==
    {Instr(m, <<a, b, c>>) : m \in OpsOfType("R"), a \in RegToks, b \in RegToks, c \in RegToks}
    \cup {Instr(m, <<a, b, i>>) : m \in OpsOfType("I"), a \in RegToks, b \in RegToks, i \in Imm12Toks}
    \cup {Instr(m, <<a, b, i>>) : m \in OpsOfType("I_SHIFT"), a \in RegToks, b \in RegToks, i \in ShamtToks}
    \cup {Instr(m, <<a, i, b>>) : m \in OpsOfType("I_LOAD"), a \in RegToks, b \in RegToks, i \in Imm12Toks}
    \cup {Instr(m, <<a, b, i>>) : m \in OpsOfType("I_LOAD"), a \in RegToks, b \in RegToks, i \in Imm12Toks}
    \cup {Instr(m, <<a, i, b>>) : m \in OpsOfType("S"), a \in RegToks, b \in RegToks, i \in Imm12Toks}
    \cup {Instr(m, <<a, b, Id("Loop")>>) : m \in OpsOfType("B"), a \in RegToks, b \in RegToks}
    \cup {Instr(m, <<a, i>>) : m \in OpsOfType("U"), a \in RegToks, i \in UpperToks}
    \cup {Instr(m, <<a, Id("Loop")>>) : m \in OpsOfType("J"), a \in RegToks}
    \cup {Instr(m, <<>>) : m \in OpsOfType("SYS")}
    \cup {Instr(m, <<r, b, c>>) : m \in OpsOfType("R"), r \in OverToks \cup WrongToks,
                                  b \in RegToks, c \in RegToks}
    \cup {Instr(m, <<a, b, r>>) : m \in OpsOfType("R"), a \in RegToks, b \in RegToks,
                                  r \in OverToks}
    \cup {Instr(m, <<a, i, r>>) : m \in OpsOfType("S"), a \in RegToks, r \in OverToks,
                                  i \in {Imm(0)}}
    \cup {Instr(m, <<r, i>>) : m \in OpsOfType("U"), r \in OverToks, i \in {Imm(1)}}

\* The words of the module's self test: 0xFFF00293 (addi x5, x0, -1) and
\* 0xFE208EE3 (beq x1, x2, -4).
NegAddiWord == Bits(659) \cup Shl(Bits(4095), 20)
NegBeqWord  == Bits(2133731) \cup Shl(Bits(127), 25)
SelfTestWords == {NegAddiWord, NegBeqWord}

\* Words to decode: every opcode of FORMAT_MAP and two outside it, with
\* samples of the other fields.
OpcodeSample == DOMAIN FORMAT_MAP \cup {0, 127}
CodecWords ==
    {Bits(op) \cup Shl(Bits(rd), 7) \cup Shl(Bits(f3), 12) \cup Shl(Bits(rs1), 15)
       \cup Shl(Bits(rs2), 20) \cup Shl(Bits(f7), 25) :
       op \in OpcodeSample, rd \in {0, 1, 31}, f3 \in 0..7, rs1 \in {0, 21},
       rs2 \in {0, 1, 31}, f7 \in {0, 1, 32, 127}}
    \cup SelfTestWords

\* The operand line that spells a decoded instruction, as __repr__ does: the
\* shift amount is the low five bits, lui takes the upper twenty bits, a
\* branch or jump names a label imm bytes away.
ReencodeLine(instr) ==
    LET t == INSTRUCTIONS[instr.mnemonic].type
        m == instr.mnemonic
    IN  CASE t = "R"       -> Instr(m, <<XReg(instr.rd), XReg(instr.rs1), XReg(instr.rs2)>>)
          [] t = "I"       -> Instr(m, <<XReg(instr.rd), XReg(instr.rs1), Imm(instr.imm)>>)
          [] t = "I_SHIFT" -> Instr(m, <<XReg(instr.rd), XReg(instr.rs1), Imm(instr.imm % 32)>>)
          [] t = "I_LOAD"  -> Instr(m, <<XReg(instr.rd), Imm(instr.imm), XReg(instr.rs1)>>)
          [] t = "S"       -> Instr(m, <<XReg(instr.rs2), Imm(instr.imm), XReg(instr.rs1)>>)
          [] t = "B"       -> Instr(m, <<XReg(instr.rs1), XReg(instr.rs2), Id("target")>>)
          [] t = "U"       -> Instr(m, <<XReg(instr.rd), Imm(Val(Shr(instr.imm, 12)))>>)
          [] t = "J"       -> Instr(m, <<XReg(instr.rd), Id("target")>>)
          [] t = "SYS"     -> Instr(m, <<>>)
ReencodePc(instr) ==
    IF instr.cls \in {"BType", "JType"} /\ instr.imm < 0 THEN 0 - instr.imm ELSE 0
ReencodeLabels(instr) ==
    IF instr.cls \in {"BType", "JType"}
    THEN ("target" :> ReencodePc(instr) + instr.imm) ELSE <<>>

NoLine  == Instr("", <<>>)
NoInstr == BaseInstruction({})

CodecIdle ==
    /\ c_phase = "idle" /\ c_line = NoLine /\ c_pc = 0 /\ c_labels = <<>>
    /\ c_enc = EncFail /\ c_word = {} /\ c_instr = NoInstr /\ c_reenc = EncFail

CodecInit ==
    /\ c_enc = EncFail /\ c_instr = NoInstr /\ c_reenc = EncFail
    /\ \/ /\ c_phase = "source"
          /\ c_line \in CodecLines
          /\ IF INSTRUCTIONS[c_line.op].type \in {"B", "J"}
             THEN c_pc \in PcSample /\ c_labels \in {("loop" :> a) : a \in LabelAddrs}
             ELSE c_pc = 0 /\ c_labels = <<>>
          /\ c_word = {}
       \/ /\ c_phase = "word"
          /\ c_word \in CodecWords
          /\ c_line = NoLine /\ c_pc = 0 /\ c_labels = <<>>

\* assemble, pass 2, on the queued (c_pc, c_line).
CodecEncode ==
    /\ c_phase = "source"
    /\ c_enc' = EncodeLine(c_pc, c_line, c_labels)
    /\ c_word' = c_enc'.val
    /\ c_phase' = IF c_enc'.ok THEN "encoded" ELSE "failed"
    /\ UNCHANGED <<c_line, c_pc, c_labels, c_instr, c_reenc>>
    /\ UNCHANGED <<asmVars, loaderVars, parserVars, sessionVars>>

\* InstructionFactory.decode on the word.
CodecDecode ==
    /\ c_phase \in {"encoded", "word"}
    /\ c_instr' = decode(c_word)
    /\ c_phase' = IF c_phase = "encoded" THEN "decoded" ELSE "disassembled"
    /\ UNCHANGED <<c_line, c_pc, c_labels, c_enc, c_word, c_reenc>>
    /\ UNCHANGED <<asmVars, loaderVars, parserVars, sessionVars>>

\* The decoded instruction, when it has a mnemonic, assembled again.
CodecReencode ==
    /\ c_phase = "disassembled"
    /\ c_instr.mnemonic # "unknown"
    /\ c_line' = ReencodeLine(c_instr)
    /\ c_pc' = ReencodePc(c_instr)
    /\ c_labels' = ReencodeLabels(c_instr)
    /\ c_reenc' = EncodeLine(c_pc', c_line', c_labels')
    /\ c_phase' = "reassembled"
    /\ UNCHANGED <<c_enc, c_word, c_instr>>
    /\ UNCHANGED <<asmVars, loaderVars, parserVars, sessionVars>>

-----------------------------------------------------------------------------
(* Specifications.  Each one runs one component; the variables of the      *)
(* others stay at their idle values.                                       *)

AsmIdle ==
    /\ a_phase = "idle" /\ a_src = <<>> /\ a_lines = <<>> /\ a_labels = <<>>
    /\ a_instrs = <<>> /\ a_code = <<>> /\ a_payload = <<>> /\ a_result = "none"
    /\ a_file = [exists |-> FALSE, bytes |-> <<>>]

LoaderIdle ==
    /\ l_pc = "idle" /\ l_port = FALSE /\ l_payload = <<>> /\ l_is_instr = FALSE
    /\ l_data = <<>> /\ l_wire = <<>> /\ l_opened = FALSE /\ l_echo = <<>>
    /\ l_ack = <<>> /\ l_result = "none"

\* read_pipeline_packet has not been called.
NoMemory == [kind |-> "none"]
NoStatus == [memory_dump_mode |-> "none"]
NotRead  == [status |-> "none", consumed |-> 0, pipeline |-> NoStatus,
             memory |-> NoMemory]

ParserIdle ==
    /\ p_input = [noise |-> <<>>, packet |-> <<>>, tail |-> <<>>, kind |-> "none"]
    /\ p_pos = 0 /\ p_buffer = <<>> /\ p_history = <<>>
    /\ e_read = NotRead

\* No execution session: the port is silent, the step state is as
\* constructed, execute_program has not been called.
NoChange == [reg_addr |-> None]
FreeTask == [phase |-> "free", got |-> <<>>, result |-> NotRead]
StepStateInit ==
    [current_step |-> 0, pipeline_status |-> NoStatus, changed_reg |-> NoChange,
     atomic_mem_transaction |-> NoMemory]

SessionIdle ==
    /\ d_rx = <<>> /\ d_sent = <<>> /\ d_seen = 0 /\ d_run = <<>> /\ d_count = 0
    /\ s_state = StepStateInit /\ s_memory = {} /\ s_tasks = <<>>
    /\ x_pc = "idle" /\ x_got = <<>> /\ x_last_register_file = <<>>
    /\ x_log = <<>> /\ x_result = NotRead

InitCodec == CodecInit /\ AsmIdle /\ LoaderIdle /\ ParserIdle /\ SessionIdle

NextCodec ==
    \/ CodecEncode
    \/ CodecDecode
    \/ CodecReencode

SpecCodec == InitCodec /\ [][NextCodec]_vars

-----------------------------------------------------------------------------
(* Codec round trips (C5, C6)                                              *)

LineType(line) == INSTRUCTIONS[line.op].type

\* The operands a source line states, by format: the register indices its
\* author means and the immediate (for a branch or jump, the distance to the
\* label).  None where the format has no such operand.
Operands(line, pc, labels) ==
    LET t == LineType(line)
        p == line.args
        no == [rd |-> None, rs1 |-> None, rs2 |-> None, imm |-> None]
    IN  CASE t = "R"       -> [no EXCEPT !.rd = p[1].n, !.rs1 = p[2].n, !.rs2 = p[3].n]
          [] t = "I"       -> [no EXCEPT !.rd = p[1].n, !.rs1 = p[2].n, !.imm = p[3].n]
          [] t = "I_SHIFT" -> [no EXCEPT !.rd = p[1].n, !.rs1 = p[2].n, !.imm = p[3].n]
          [] t = "I_LOAD"  -> IF p[2].k = "imm"
                              THEN [no EXCEPT !.rd = p[1].n, !.rs1 = p[3].n, !.imm = p[2].n]
                              ELSE [no EXCEPT !.rd = p[1].n, !.rs1 = p[2].n, !.imm = p[3].n]
          [] t = "S"       -> [no EXCEPT !.rs2 = p[1].n, !.rs1 = p[3].n, !.imm = p[2].n]
          [] t = "B"       -> [no EXCEPT !.rs1 = p[1].n, !.rs2 = p[2].n,
                                         !.imm = labels[Lower(p[3].s)] - pc]
          [] t = "U"       -> [no EXCEPT !.rd = p[1].n, !.imm = p[2].n]
          [] t = "J"       -> [no EXCEPT !.rd = p[1].n, !.imm = labels[Lower(p[2].s)] - pc]
          [] t = "SYS"     -> no

\* The immediate fits its field.
InRange(line, pc, labels) ==
    LET t   == LineType(line)
        imm == Operands(line, pc, labels).imm
    IN  CASE t \in {"I", "I_LOAD", "S"} -> imm \in -2048..2047
          [] t = "I_SHIFT"              -> imm \in 0..31
          [] t = "B"                    -> imm \in -4096..4094
          [] t = "J"                    -> imm \in -1048576..1048574
          [] t = "U"                    -> imm \in 0..1048575
          [] OTHER                      -> TRUE

\* The operand positions (after the mnemonic) that hold registers.
RegPositions(line) ==
    LET t == LineType(line)
    IN  CASE t = "R"                 -> {1, 2, 3}
          [] t \in {"I", "I_SHIFT", "B"} -> {1, 2}
          [] t = "I_LOAD"            -> IF line.args[2].k = "imm" THEN {1, 3} ELSE {1, 2}
          [] t = "S"                 -> {1, 3}
          [] t \in {"U", "J"}        -> {1}
          [] OTHER                   -> {}

\* Every register operand denotes one of the 32 registers.
RegsInRange(line) == \A i \in RegPositions(line) : line.args[i].n \in 0..31

RegsMatch(instr, ops) ==
    /\ ops.rd # None => instr.rd = ops.rd
    /\ ops.rs1 # None => instr.rs1 = ops.rs1
    /\ ops.rs2 # None => instr.rs2 = ops.rs2

\* The decoded immediate, as a number, is the stated operand.
ImmIsOperand(instr, t, ops) ==
    CASE t \in {"R", "SYS"} -> TRUE
      [] t = "U"            -> instr.imm = Bits(ops.imm)
      [] OTHER              -> instr.imm = ops.imm

\* The decoded immediate carries the operand the way the format stores it: a
\* shift keeps funct7 above the five bits of the amount, lui keeps the
\* operand in bits 31:12.
ImmCarriesOperand(instr, line, t, ops) ==
    CASE t \in {"R", "SYS"} -> TRUE
      [] t = "U"            -> instr.imm = Shl(Bits(ops.imm), 12)
      [] t = "I_SHIFT"      -> /\ instr.imm % 32 = ops.imm
                               /\ instr.imm = 32 * INSTRUCTIONS[line.op].funct7 + ops.imm
      [] OTHER              -> instr.imm = ops.imm

CodecRoundTripCase ==
    c_phase = "decoded" /\ InRange(c_line, c_pc, c_labels) /\ RegsInRange(c_line)

\* C5 as stated: decode(assemble(line)) has the mnemonic, the register
\* indices and the immediate value of the line's operands; for a shift the
\* immediate is the shift amount and for lui it is the upper-immediate operand.
C5_DecodeReturnsOperands ==
    CodecRoundTripCase =>
        LET ops == Operands(c_line, c_pc, c_labels)
        IN  /\ c_instr.mnemonic = c_line.op
            /\ RegsMatch(c_instr, ops)
            /\ ImmIsOperand(c_instr, LineType(c_line), ops)

\* C5 amended: decode(assemble(line)) has the mnemonic and the register
\* indices of the line; its immediate equals the operand for the I, load/jalr,
\* S, B and J formats, is funct7 * 32 + shamt for a shift (so the shift amount
\* is its low five bits), and is the operand shifted left by 12 for lui.
C5_EncodeDecodeRoundTrip ==
    CodecRoundTripCase =>
        LET ops == Operands(c_line, c_pc, c_labels)
        IN  /\ c_instr.mnemonic = c_line.op
            /\ RegsMatch(c_instr, ops)
            /\ ImmCarriesOperand(c_instr, c_line, LineType(c_line), ops)

C5_Witness ==
    /\ CodecRoundTripCase
    /\ c_line.op = "bne"
    /\ c_instr.imm = -4
    /\ c_instr.rs1 = 31

\* C6: a word that decodes to a known mnemonic is reproduced bit for bit when
\* the decoded mnemonic and fields are assembled again.
C6_DecodeEncodeRoundTrip ==
    c_phase = "reassembled" => (c_reenc.ok /\ c_reenc.val = c_word)

-----------------------------------------------------------------------------
(* Operand checking (C11, C12)                                             *)

\* Pass 2 produced a word for the source line.
LineEncoded == c_phase \in {"encoded", "decoded"}

\* C11: a line whose immediate is out of range for its field produces no
\* machine word: every line that was encoded has its immediate (or its label
\* distance) inside the range of the field.
C11_OutOfRangeImmediateFails ==
    LineEncoded => InRange(c_line, c_pc, c_labels)

\* C12: every register token pass 2 accepts is a name of the register table,
\* so its index is in 0..31 and stays inside its five-bit field.
C12_OnlyTableRegistersAccepted ==
    LineEncoded =>
        \A i \in RegPositions(c_line) :
            /\ c_line.args[i].s \in DOMAIN REGISTERS
            /\ parse_reg(c_line.args[i]) \in 0..31

-----------------------------------------------------------------------------
(* Assembler pipeline (assembler.py: expand_macros, assemble,              *)
(* assemble_file)                                                          *)

IsBlank(line)     == line.lbl = "" /\ line.op = ""
IsLabelOnly(line) == line.lbl # "" /\ line.op = ""

\* -2048 <= imm <= 2047 for the value of an immediate token.
FitsAddi(tok) == tok.s # "big" /\ -2048 <= tok.n /\ tok.n <= 2047

\* LiLines without the carry into the upper part.
LiLines_NoCarry(rd, tok) ==
    LET imm   == parse_imm(tok)
        lower0 == MaskInt(imm, 12)
        upper  == MaskInt(imm \div 4096, 20)
        lower  == IF 11 \in Bits(lower0) THEN lower0 - 4096 ELSE lower0
    IN  IF FitsAddi(tok)
        THEN <<Instr("addi", <<rd, Reg("zero", 0), Imm(imm)>>)>>
        ELSE <<Instr("lui", <<rd, Imm(upper)>>)>>
             \o (IF lower # 0 THEN <<Instr("addi", <<rd, rd, Imm(lower)>>)>>
                 ELSE <<>>)

\* The li branch of expand_macros: one addi, or lui and an addi for a
\* non-zero lower part.
LiLines(rd, tok) ==
    LET imm    == parse_imm(tok)
        lower0 == MaskInt(imm, 12)
        upper0 == MaskInt(imm \div 4096, 20)
        carry  == 11 \in Bits(lower0)
        upper  == IF carry THEN upper0 + 1 ELSE upper0
        lower  == IF carry THEN lower0 - 4096 ELSE lower0
    IN  IF FitsAddi(tok)
        THEN <<Instr("addi", <<rd, Reg("zero", 0), Imm(imm)>>)>>
        ELSE <<Instr("lui", <<rd, Imm(upper)>>)>>
             \o (IF lower # 0 THEN <<Instr("addi", <<rd, rd, Imm(lower)>>)>>
                 ELSE <<>>)

\* What expand_macros appends for one raw line, or a failure (IndexError on
\* a missing operand, ValueError from parse_imm).  A line that carries a
\* label in front of its instruction has "name:" as its first word, which is
\* no pseudo-instruction, so it goes through unchanged.
ExpandLine(line) ==
    LET args == line.args
        out(ls) == [ok |-> TRUE, lines |-> ls]
        fail    == [ok |-> FALSE, lines |-> <<>>]
    IN  CASE IsBlank(line)     -> out(<<>>)
          [] IsLabelOnly(line) -> out(<<line>>)
          [] line.lbl # "" /\ line.op # "" -> out(<<line>>)
          [] line.lbl = "" /\ line.op = "nop" ->
                out(<<Instr("addi", <<Reg("x0", 0), Reg("x0", 0), Imm(0)>>)>>)
          [] line.lbl = "" /\ line.op = "mv" ->
                IF Len(args) < 2 THEN fail
                ELSE out(<<Instr("addi", <<args[1], args[2], Imm(0)>>)>>)
          [] line.lbl = "" /\ line.op = "li" ->
                IF Len(args) < 2 \/ ~ImmOk(args[2]) THEN fail
                ELSE out(LiLines(args[1], args[2]))
          [] line.lbl = "" /\ line.op = "blt" ->
                IF Len(args) < 3 THEN fail
                ELSE out(<<Instr("slt", <<Reg(ASM_TEMP_REG, 31), args[1], args[2]>>),
                           Instr("bne", <<Reg(ASM_TEMP_REG, 31), Reg("zero", 0), args[3]>>)>>)
          [] OTHER -> out(<<line>>)

RECURSIVE expand_macros(_)
expand_macros(raw_lines) ==
    IF raw_lines = <<>> THEN [ok |-> TRUE, lines |-> <<>>]
    ELSE LET h == ExpandLine(Head(raw_lines))
             t == expand_macros(Tail(raw_lines))
         IN  IF h.ok /\ t.ok THEN [ok |-> TRUE, lines |-> h.lines \o t.lines]
             ELSE [ok |-> FALSE, lines |-> <<>>]

\* dict assignment labels[name] = pc
SetLabel(labels, name, pc) ==
    [n \in DOMAIN labels \cup {name} |-> IF n = name THEN pc ELSE labels[n]]

NoLabels == [n \in {} |-> 0]

RECURSIVE Pass1_LabelAdvances(_, _, _, _)
\* Pass1 with a label-only line advancing the counter like an instruction.
Pass1_LabelAdvances(lines, labels, pc, clean_instrs) ==
    IF lines = <<>> THEN [labels |-> labels, instrs |-> clean_instrs]
    ELSE LET line == Head(lines)
         IN  IF IsLabelOnly(line)
             THEN Pass1_LabelAdvances(Tail(lines), SetLabel(labels, Lower(line.lbl), pc),
                                      pc + 4, clean_instrs)
             ELSE IF line.lbl # ""
             THEN Pass1_LabelAdvances(Tail(lines), SetLabel(labels, Lower(line.lbl), pc),
                        pc + 4,
                        Append(clean_instrs, [pc |-> pc, line |-> Instr(line.op, line.args)]))
             ELSE Pass1_LabelAdvances(Tail(lines), labels, pc + 4,
                        Append(clean_instrs, [pc |-> pc, line |-> line]))

RECURSIVE Pass1(_, _, _, _)
\* The first loop of assemble: the label table and the queued (pc, line) list.
Pass1(lines, labels, pc, clean_instrs) ==
    IF lines = <<>> THEN [labels |-> labels, instrs |-> clean_instrs]
    ELSE LET line == Head(lines)
         IN  IF IsLabelOnly(line)
             THEN Pass1(Tail(lines), SetLabel(labels, Lower(line.lbl), pc), pc, clean_instrs)
             ELSE IF line.lbl # ""
             THEN Pass1(Tail(lines), SetLabel(labels, Lower(line.lbl), pc), pc + 4,
                        Append(clean_instrs, [pc |-> pc, line |-> Instr(line.op, line.args)]))
             ELSE Pass1(Tail(lines), labels, pc + 4,
                        Append(clean_instrs, [pc |-> pc, line |-> line]))

RECURSIVE Pass2(_, _)
\* The second loop of assemble: binary_code, or a failure at the first line
\* that does not encode.
Pass2(clean_instrs, labels) ==
    IF clean_instrs = <<>> THEN [ok |-> TRUE, code |-> <<>>]
    ELSE LET e == EncodeLine(Head(clean_instrs).pc, Head(clean_instrs).line, labels)
             t == Pass2(Tail(clean_instrs), labels)
         IN  IF e.ok /\ t.ok THEN [ok |-> TRUE, code |-> <<e.val>> \o t.code]
             ELSE [ok |-> FALSE, code |-> <<>>]

\* struct.pack('<I', instr) raises for a value of more than 32 bits.
Packable(w) == w \subseteq 0..31

\* assemble_file, the packing step: payload = b"".join(pack('<I', w)).
PackWords(code) == Flatten([i \in 1..Len(code) |-> PackLE(code[i])])

\* The number of words in front of the first one that does not pack.
PackablePrefix(code) ==
    IF \A i \in 1..Len(code) : Packable(code[i]) THEN Len(code)
    ELSE (CHOOSE i \in 1..Len(code) :
              /\ ~Packable(code[i])
              /\ \A j \in 1..(i - 1) : Packable(code[j])) - 1

\* The output file of the command-line assemble_file: not created.
NoFile == [exists |-> FALSE, bytes |-> <<>>]

-----------------------------------------------------------------------------
(* Assembler specification: assemble_file on one source text.              *)

MaxLines == 3

LineSamples ==
    { Instr("addi", <<Reg("x5", 5), Reg("x0", 0), Imm(15)>>),
      Instr("add", <<Reg("x3", 3), Reg("x1", 1), Reg("x2", 2)>>),
      Instr("ecall", <<>>),
      LabelLine("Loop"),
      Line("END", "addi", <<Reg("x1", 1), Reg("x1", 1), Imm(-1)>>),
      Instr("nop", <<>>),
      Instr("li", <<Reg("t0", 5), HexImm(6144)>>),
      Instr("li", <<Reg("x5", 5), Imm(100)>>),
      Instr("blt", <<Reg("x1", 1), Reg("x2", 2), Id("Loop")>>),
      Instr("beq", <<Reg("x1", 1), Reg("x2", 2), Id("end")>>),
      Instr("", <<>>),
      Instr("foo", <<Reg("x1", 1)>>),
      Instr("addi", <<Reg("x1", 1), Id("q9"), Imm(1)>>),
      Instr("add", <<XNum("x32", 32), Reg("x1", 1), Reg("x2", 2)>>),
      Instr("add", <<Reg("x1", 1), Reg("x1", 1), XNum("x4096", 4096)>>),
      Line("Loop", "nop", <<>>) }

Programs == UNION {[1..n -> LineSamples] : n \in 0..MaxLines}

AsmInit ==
    /\ a_phase = "source" /\ a_src \in Programs
    /\ a_lines = <<>> /\ a_labels = NoLabels /\ a_instrs = <<>>
    /\ a_code = <<>> /\ a_payload = <<>> /\ a_result = "none"
    /\ a_file = NoFile

\* assemble: lines = expand_macros(source_lines); an exception in it ends
\* assemble_file with None.
AsmExpand ==
    /\ a_phase = "source"
    /\ LET r == expand_macros(a_src)
       IN  /\ a_lines' = r.lines
           /\ a_phase' = IF r.ok THEN "expanded" ELSE "done"
           /\ a_result' = IF r.ok THEN a_result ELSE "error"
    /\ UNCHANGED <<a_src, a_labels, a_instrs, a_code, a_payload, a_file>>
    /\ UNCHANGED <<codecVars, loaderVars, parserVars, sessionVars>>

\* assemble, first loop.
AsmPass1 ==
    /\ a_phase = "expanded"
    /\ LET r == Pass1(a_lines, NoLabels, 0, <<>>)
       IN  a_labels' = r.labels /\ a_instrs' = r.instrs
    /\ a_phase' = "queued"
    /\ UNCHANGED <<a_src, a_lines, a_code, a_payload, a_result, a_file>>
    /\ UNCHANGED <<codecVars, loaderVars, parserVars, sessionVars>>

\* assemble, second loop; an exception in it ends assemble_file with None.
AsmPass2 ==
    /\ a_phase = "queued"
    /\ LET r == Pass2(a_instrs, a_labels)
       IN  /\ a_code' = r.code
           /\ a_phase' = IF r.ok THEN "encoded" ELSE "done"
           /\ a_result' = IF r.ok THEN a_result ELSE "error"
    /\ UNCHANGED <<a_src, a_lines, a_labels, a_instrs, a_payload, a_file>>
    /\ UNCHANGED <<codecVars, loaderVars, parserVars, sessionVars>>

\* assemble_file: the payload, or None when a word does not pack.  The
\* command-line variant opens the output file and writes word after word, so
\* the words before one that does not pack stay in the file.
AsmPack ==
    /\ a_phase = "encoded"
    /\ LET ok == \A i \in 1..Len(a_code) : Packable(a_code[i])
       IN  /\ a_payload' = IF ok THEN PackWords(a_code) ELSE <<>>
           /\ a_result' = IF ok THEN "ok" ELSE "error"
           /\ a_file' = [exists |-> TRUE,
                         bytes |-> PackWords(SubSeq(a_code, 1, PackablePrefix(a_code)))]
    /\ a_phase' = "done"
    /\ UNCHANGED <<a_src, a_lines, a_labels, a_instrs, a_code>>
    /\ UNCHANGED <<codecVars, loaderVars, parserVars, sessionVars>>

InitAsm == AsmInit /\ CodecIdle /\ LoaderIdle /\ ParserIdle /\ SessionIdle

NextAsm ==
    \/ AsmExpand
    \/ AsmPass1
    \/ AsmPass2
    \/ AsmPack

SpecAsm == InitAsm /\ [][NextAsm]_vars

-----------------------------------------------------------------------------
(* Loader (loader.py)                                                      *)

CMD_LOAD_CODE == 28
CMD_LOAD_DATA == 29
ACK_FINISH    == 241
ECALL_OPCODE  == <<115, 0, 0, 0>>
MAX_WORDS     == 256

Zeros(n) == [i \in 1..n |-> 0]

\* data[-4:]
LastFour(data) == SubSeq(data, IF Len(data) > 4 THEN Len(data) - 3 ELSE 1, Len(data))

\* The alignment step of validate_payload: zero bytes up to a multiple of 4.
PadToWord(data) ==
    IF Len(data) % 4 # 0 THEN data \o Zeros(4 - (Len(data) % 4)) ELSE data

\* validate_payload without the ECALL check.
validate_payload_NoEcallCheck(data, is_instruction) ==
    LET word_count == Len(data) \div 4
        padded     == PadToWord(data)
    IN  IF word_count > MAX_WORDS
        THEN [ok |-> FALSE, data |-> <<>>]
        ELSE [ok |-> TRUE, data |-> padded]

\* validate_payload: the size check (on the length as given), the padding,
\* the ECALL check; the padded data, or the LoaderError it raises.
validate_payload(data, is_instruction) ==
    LET word_count == Len(data) \div 4
        padded     == PadToWord(data)
    IN  IF word_count > MAX_WORDS
        THEN [ok |-> FALSE, data |-> <<>>]
        ELSE IF is_instruction /\ LastFour(padded) # ECALL_OPCODE
        THEN [ok |-> FALSE, data |-> <<>>]
        ELSE [ok |-> TRUE, data |-> padded]

TargetCmd(is_instruction) == IF is_instruction THEN CMD_LOAD_CODE ELSE CMD_LOAD_DATA

\* struct.pack('>H', word_count)
PackBE16(n) == <<n \div 256, n % 256>>

\* EchoOk accepting any byte as the echo.
EchoOk_AnyByte(echo, target_cmd) == echo # <<>>

\* not echo or echo[0] != target_cmd  is the failure; this is its negation.
EchoOk(echo, target_cmd) == echo # <<>> /\ echo[1] = target_cmd

\* AckOk accepting any byte as the acknowledgement.
AckOk_AnyByte(ack) == ack # <<>>

\* ack == b'\xF1'
AckOk(ack) == ack = <<ACK_FINISH>>

\* What ser.read(1) can return: nothing (timeout) or one byte.
ReadOne(expected) == {<<>>, <<expected>>, <<0>>, <<255>>}

\* upload_to_fpga up to the with statement: the port check and
\* validate_payload; a LoaderError leaves before the port is opened.
LoaderValidate ==
    /\ l_pc = "call"
    /\ LET v == validate_payload(l_payload, TargetCmd(l_is_instr) = CMD_LOAD_CODE)
       IN  IF l_port /\ v.ok
           THEN l_data' = v.data /\ l_pc' = "validated" /\ l_result' = l_result
           ELSE l_data' = l_data /\ l_pc' = "done" /\ l_result' = "LoaderError"
    /\ UNCHANGED <<l_port, l_payload, l_is_instr, l_wire, l_opened, l_echo, l_ack>>
    /\ UNCHANGED <<codecVars, asmVars, parserVars, sessionVars>>

\* serial.Serial(port, BAUDRATE, timeout=2.0) and reset_input_buffer().
LoaderOpen ==
    /\ l_pc = "validated"
    /\ l_opened' = TRUE
    /\ l_pc' = "opened"
    /\ UNCHANGED <<l_port, l_payload, l_is_instr, l_data, l_wire, l_echo, l_ack, l_result>>
    /\ UNCHANGED <<codecVars, asmVars, parserVars, sessionVars>>

\* ser.write(bytes([target_cmd]))
LoaderSendCommand ==
    /\ l_pc = "opened"
    /\ l_wire' = Append(l_wire, <<TargetCmd(l_is_instr)>>)
    /\ l_pc' = "await_echo"
    /\ UNCHANGED <<l_port, l_payload, l_is_instr, l_data, l_opened, l_echo, l_ack, l_result>>
    /\ UNCHANGED <<codecVars, asmVars, parserVars, sessionVars>>

\* echo = ser.read(1) and the handshake test.
LoaderReadEcho ==
    /\ l_pc = "await_echo"
    /\ \E echo \in ReadOne(TargetCmd(l_is_instr)) :
          /\ l_echo' = echo
          /\ IF EchoOk(echo, TargetCmd(l_is_instr))
             THEN l_pc' = "handshaken" /\ l_result' = l_result
             ELSE l_pc' = "done" /\ l_result' = "LoaderError"
    /\ UNCHANGED <<l_port, l_payload, l_is_instr, l_data, l_wire, l_opened, l_ack>>
    /\ UNCHANGED <<codecVars, asmVars, parserVars, sessionVars>>

\* ser.write(struct.pack('>H', word_count)), word_count = len(data) // 4.
LoaderSendCount ==
    /\ l_pc = "handshaken"
    /\ l_wire' = Append(l_wire, PackBE16(Len(l_data) \div 4))
    /\ l_pc' = "count_sent"
    /\ UNCHANGED <<l_port, l_payload, l_is_instr, l_data, l_opened, l_echo, l_ack, l_result>>
    /\ UNCHANGED <<codecVars, asmVars, parserVars, sessionVars>>

\* ser.write(data)
LoaderSendPayload ==
    /\ l_pc = "count_sent"
    /\ l_wire' = Append(l_wire, l_data)
    /\ l_pc' = "await_ack"
    /\ UNCHANGED <<l_port, l_payload, l_is_instr, l_data, l_opened, l_echo, l_ack, l_result>>
    /\ UNCHANGED <<codecVars, asmVars, parserVars, sessionVars>>

\* ack = ser.read(1) and the final test.
LoaderReadAck ==
    /\ l_pc = "await_ack"
    /\ \E ack \in ReadOne(ACK_FINISH) :
          /\ l_ack' = ack
          /\ l_result' = IF AckOk(ack) THEN "ok" ELSE "LoaderError"
    /\ l_pc' = "done"
    /\ UNCHANGED <<l_port, l_payload, l_is_instr, l_data, l_wire, l_opened, l_echo>>
    /\ UNCHANGED <<codecVars, asmVars, parserVars, sessionVars>>

\* except serial.SerialException: opening the port, a write or a read fails.
LoaderSerialException ==
    /\ l_pc \in {"validated", "opened", "await_echo", "handshaken", "count_sent", "await_ack"}
    /\ l_pc' = "done"
    /\ l_result' = "LoaderError"
    /\ UNCHANGED <<l_port, l_payload, l_is_instr, l_data, l_wire, l_opened, l_echo, l_ack>>
    /\ UNCHANGED <<codecVars, asmVars, parserVars, sessionVars>>

-----------------------------------------------------------------------------
(* Loader specification: one call of upload_to_fpga.                       *)

MaxBody == 4

\* Payloads: a run of zero bytes, short or around the 4 * MAX_WORDS limit,
\* followed by one of a few endings.
BodyLens == (0..MaxBody) \cup {4 * MAX_WORDS - 4 + k : k \in 0..(4 + MaxBody)}
Endings  == {<<>>, ECALL_OPCODE, <<115>>, <<115, 0, 0>>, <<19, 0, 0, 0>>}
Payloads == {Zeros(n) \o e : n \in BodyLens, e \in Endings}

LoaderInit ==
    /\ l_pc = "call"
    /\ l_port \in BOOLEAN
    /\ l_payload \in Payloads
    /\ l_is_instr \in BOOLEAN
    /\ l_data = <<>> /\ l_wire = <<>> /\ l_opened = FALSE
    /\ l_echo = <<>> /\ l_ack = <<>> /\ l_result = "none"

InitLoader == LoaderInit /\ CodecIdle /\ AsmIdle /\ ParserIdle /\ SessionIdle

NextLoader ==
    \/ LoaderValidate
    \/ LoaderOpen
    \/ LoaderSendCommand
    \/ LoaderReadEcho
    \/ LoaderSendCount
    \/ LoaderSendPayload
    \/ LoaderReadAck
    \/ LoaderSerialException

SpecLoader == InitLoader /\ [][NextLoader]_vars

-----------------------------------------------------------------------------
(* Assembler claims (C3, C4)                                               *)

C3Source ==
    << Instr("addi", <<Reg("x5", 5), Reg("x0", 0), Imm(15)>>),
       Instr("add", <<Reg("x3", 3), Reg("x1", 1), Reg("x2", 2)>>),
       Instr("ecall", <<>>) >>

\* C3: the three lines addi x5, x0, 15 / add x3, x1, x2 / ecall assemble to
\* the words 0x00F00293, 0x002081B3, 0x00000073, packed little-endian as
\* 93 02 F0 00 B3 81 20 00 73 00 00 00, and the payload passes
\* validate_payload as an instruction-memory image.
C3_EndToEndProgram ==
    (a_src = C3Source /\ a_phase = "done") =>
        /\ a_result = "ok"
        /\ a_code = << W(240, 659), W(32, 33203), W(0, 115) >>
        /\ a_payload = <<147, 2, 240, 0, 179, 129, 32, 0, 115, 0, 0, 0>>
        /\ validate_payload(a_payload, TRUE).ok
        /\ validate_payload(a_payload, TRUE).data = a_payload

C3_Witness == a_src = C3Source /\ a_phase = "done" /\ Len(a_payload) = 12

\* C4: after pass 1 the queue holds exactly the N instruction lines of the
\* expanded source, the k-th (from 0) at address 4k; every label is in the
\* table, bound to 4 times the number of expanded instructions before its
\* (last) definition; and a successful assembly has N words and 4N bytes.
C4_AddressAssignment ==
    a_phase \in {"queued", "encoded", "done"} =>
        LET IsInstr(i) == a_lines[i].op # ""
            HasLabel(i) == a_lines[i].lbl # ""
            N == Cardinality({i \in 1..Len(a_lines) : IsInstr(i)})
            Before(i) == Cardinality({j \in 1..(i - 1) : IsInstr(j)})
            Defs(name) == {i \in 1..Len(a_lines) : HasLabel(i) /\ Lower(a_lines[i].lbl) = name}
            LastDef(name) == CHOOSE i \in Defs(name) : \A j \in Defs(name) : j <= i
        IN  /\ Len(a_instrs) = N
            /\ \A k \in 1..N : a_instrs[k].pc = 4 * (k - 1)
            /\ \A i \in 1..Len(a_lines) :
                  IsInstr(i) => /\ a_instrs[Before(i) + 1].line.op = a_lines[i].op
                                /\ a_instrs[Before(i) + 1].line.args = a_lines[i].args
            /\ DOMAIN a_labels = {Lower(a_lines[i].lbl) : i \in {j \in 1..Len(a_lines) : HasLabel(j)}}
            /\ \A name \in DOMAIN a_labels : a_labels[name] = 4 * Before(LastDef(name))
            /\ (a_phase = "encoded" \/ a_result = "ok") => Len(a_code) = N
            /\ a_result = "ok" => Len(a_payload) = 4 * N

C4_Witness ==
    /\ a_result = "ok"
    /\ Len(a_src) = 3 /\ a_src[1].op = "blt" /\ a_src[2] = LabelLine("Loop")
    /\ a_labels["loop"] = 8
    /\ Len(a_payload) = 12

-----------------------------------------------------------------------------
(* Loader claims (C7 .. C10)                                               *)

\* C7: with is_instruction = True, unless the zero-padded payload ends with
\* 73 00 00 00 nothing is written and the port is never opened: the call ends
\* in LoaderError.
C7_NoWriteWithoutEcall ==
    (l_is_instr /\ LastFour(PadToWord(l_payload)) # ECALL_OPCODE) =>
        /\ l_wire = <<>>
        /\ ~l_opened
        /\ l_pc \in {"call", "done"}
        /\ l_pc = "done" => l_result = "LoaderError"

C7_Witness ==
    /\ l_is_instr /\ l_port /\ l_pc = "done" /\ l_result = "LoaderError"
    /\ l_payload = <<0, 0, 0, 0, 19, 0, 0, 0>>

\* C8: the command byte is the first write and is written once; the word
\* count and the payload are written only after an echo equal to the command
\* was read; after a missing or different echo the call has failed with
\* LoaderError and the command is the only thing ever written.
C8_HandshakeOrdering ==
    LET cmd == TargetCmd(l_is_instr)
    IN  /\ l_wire # <<>> => l_wire[1] = <<cmd>>
        /\ \A i \in 2..Len(l_wire) : l_wire[i] # <<cmd>>
        /\ Len(l_wire) >= 2 => l_echo = <<cmd>>
        /\ (l_pc \notin {"call", "validated", "opened", "await_echo"}
              /\ l_wire # <<>> /\ l_echo # <<cmd>>)
           => (l_pc = "done" /\ l_result = "LoaderError" /\ Len(l_wire) = 1)

C8_Witness ==
    /\ l_pc = "done" /\ l_echo = <<255>> /\ l_result = "LoaderError"
    /\ l_wire = << <<CMD_LOAD_DATA>> >>

\* C9: the call succeeds only if the byte read after the whole payload was
\* written is 0xF1; any other byte or no byte ends in LoaderError.
C9_SuccessOnlyOnAck ==
    /\ l_result = "ok" =>
          (l_ack = <<ACK_FINISH>> /\ Len(l_wire) = 3 /\ l_wire[3] = l_data /\ l_pc = "done")
    /\ (l_pc = "done" /\ Len(l_wire) = 3 /\ l_ack # <<ACK_FINISH>>)
          => l_result = "LoaderError"

C9_Witness ==
    /\ l_pc = "done" /\ Len(l_wire) = 3 /\ l_ack = <<255>> /\ l_result = "LoaderError"

\* C10: the transmitted word count never exceeds MAX_WORDS, and a payload
\* whose padded word count exceeds it is rejected before anything is written.
C10_WordCountWithinLimit ==
    /\ Len(l_wire) >= 2 => l_wire[2][1] * 256 + l_wire[2][2] <= MAX_WORDS
    /\ (Len(PadToWord(l_payload)) \div 4 > MAX_WORDS)
          => (l_wire = <<>> /\ l_pc \in {"call", "done"}
              /\ (l_pc = "done" => l_result = "LoaderError"))

-----------------------------------------------------------------------------
(* Streaming telemetry parser (gui/main.py: RISCVDumpParser)               *)

CMD_DUMP_ALERT == 218
SIZE_REG_FILE  == 128
SIZE_HAZARD    == 4
SIZE_IF_ID     == 12
SIZE_ID_EX     == 24
SIZE_EX_MEM    == 16
SIZE_MEM_WB    == 16
SIZE_PIPELINE  == SIZE_HAZARD + SIZE_IF_ID + SIZE_ID_EX + SIZE_EX_MEM + SIZE_MEM_WB

\* 2 (alert + mode) + registers + pipeline
HeaderSize == 2 + SIZE_REG_FILE + SIZE_PIPELINE

\* struct.unpack('<I', data[off:off+4])[0], off counted from 0.
WordAt(data, off) == UnpackLE(SubSeq(data, off + 1, off + 4))

AllOnes == 0..31

\* Unsigned order and distance of two words, through their 16-bit halves.
HiHalf(w) == Val(Field(w, 16, 16))
LoHalf(w) == Val(Field(w, 0, 16))
WordLess(a, b) ==
    HiHalf(a) < HiHalf(b) \/ (HiHalf(a) = HiHalf(b) /\ LoHalf(a) < LoHalf(b))
\* (b - a) // 4 for a <= b
QuarterDistance(a, b) ==
    (HiHalf(b) - HiHalf(a)) * 16384 + ((LoHalf(b) - LoHalf(a)) \div 4)

Flag(w, bit) == bit \in w

\* RISCVDumpParser.decode_packet
decode_packet(data, mode, cont_word_count) ==
    LET pRegs   == 2
        pHazard == pRegs + SIZE_REG_FILE
        pIfId   == pHazard + 4
        pIdEx   == pIfId + 12
        pExMem  == pIdEx + 24
        pMemWb  == pExMem + 16
        pMem    == pMemWb + 16
        h_val   == WordAt(data, pHazard)
        id_ctrl == WordAt(data, pIdEx)
        id_meta == WordAt(data, pIdEx + 20)
        ex_cm   == WordAt(data, pExMem)
        wb_cm   == WordAt(data, pMemWb)
        flag    == WordAt(data, pMem)
        noMem   == [mode |-> mode, step_write_flag |-> FALSE, step_addr |-> {},
                    step_data |-> {}, range_min |-> {}, range_max |-> {},
                    range_words |-> <<>>]
    IN  [ source_mode |-> IF mode = 0 THEN "STEP" ELSE "CONTINUOUS",
          registers |-> [i \in 1..32 |-> WordAt(data, pRegs + (i - 1) * 4)],
          hazard |-> [ pc_write_en     |-> Flag(h_val, 9),
                       if_id_write_en  |-> Flag(h_val, 8),
                       control_hazard  |-> Flag(h_val, 7),
                       load_use_hazard |-> Flag(h_val, 6),
                       enc_rs2_fwd     |-> Flag(h_val, 5),
                       enc_rs1_fwd     |-> Flag(h_val, 4),
                       program_ended   |-> Flag(h_val, 0) ],
          if_id |-> [ pc |-> WordAt(data, pIfId), instr |-> WordAt(data, pIfId + 4),
                      pc4 |-> WordAt(data, pIfId + 8) ],
          id_ex |-> [ reg_write   |-> Flag(id_ctrl, 11),
                      mem_write   |-> Flag(id_ctrl, 10),
                      mem_read    |-> Flag(id_ctrl, 9),
                      alu_src_imm |-> Flag(id_ctrl, 8),
                      alu_intent  |-> Val(Field(id_ctrl, 6, 2)),
                      rd_src      |-> Val(Field(id_ctrl, 4, 2)),
                      is_branch   |-> Flag(id_ctrl, 3),
                      is_jal      |-> Flag(id_ctrl, 2),
                      is_jalr     |-> Flag(id_ctrl, 1),
                      is_halt     |-> Flag(id_ctrl, 0),
                      pc       |-> WordAt(data, pIdEx + 4),
                      rs1_data |-> WordAt(data, pIdEx + 8),
                      rs2_data |-> WordAt(data, pIdEx + 12),
                      imm      |-> WordAt(data, pIdEx + 16),
                      rs1_addr |-> Val(Field(id_meta, 20, 5)),
                      rs2_addr |-> Val(Field(id_meta, 15, 5)),
                      rd_addr  |-> Val(Field(id_meta, 10, 5)),
                      funct3   |-> Val(Field(id_meta, 7, 3)),
                      funct7   |-> Val(Field(id_meta, 0, 7)) ],
          ex_mem |-> [ reg_write |-> Flag(ex_cm, 13),
                       mem_write |-> Flag(ex_cm, 12),
                       mem_read  |-> Flag(ex_cm, 11),
                       rd_src    |-> Val(Field(ex_cm, 9, 2)),
                       is_halt   |-> Flag(ex_cm, 8),
                       alu_res    |-> WordAt(data, pExMem + 4),
                       store_data |-> WordAt(data, pExMem + 8),
                       pc         |-> WordAt(data, pExMem + 12),
                       rd_addr   |-> Val(Field(ex_cm, 3, 5)),
                       funct3    |-> Val(Field(ex_cm, 0, 3)) ],
          mem_wb |-> [ reg_write |-> Flag(wb_cm, 8),
                       rd_src    |-> Val(Field(wb_cm, 6, 2)),
                       is_halt   |-> Flag(wb_cm, 5),
                       exec_data |-> WordAt(data, pMemWb + 4),
                       read_data |-> WordAt(data, pMemWb + 8),
                       pc        |-> WordAt(data, pMemWb + 12),
                       rd_addr   |-> Val(Field(wb_cm, 0, 5)) ],
          memory |->
              IF mode = 0
              THEN IF flag = Bits(1)
                   THEN [noMem EXCEPT !.step_write_flag = TRUE,
                                      !.step_addr = WordAt(data, pMem + 4),
                                      !.step_data = WordAt(data, pMem + 8)]
                   ELSE noMem
              ELSE [noMem EXCEPT !.range_min = WordAt(data, pMem),
                                 !.range_max = WordAt(data, pMem + 4),
                                 !.range_words =
                                     [k \in 1..cont_word_count |->
                                         WordAt(data, pMem + 8 + (k - 1) * 4)]] ]

\* The size of the memory section, once enough bytes are there to tell:
\* known = FALSE is the early return on a missing min/max pair.  A section of
\* more words than the buffer has bytes is given as longer than the buffer,
\* which is all process_buffer asks of it.
MemSection(buffer) ==
    LET mode       == buffer[2]
        mem_offset == HeaderSize
    IN  IF mode = 0
        THEN LET flag == WordAt(buffer, mem_offset)
             IN  [known |-> TRUE, word_count |-> 0,
                  mem_size |-> IF flag = Bits(1) THEN 12 ELSE 4]
        ELSE IF Len(buffer) < mem_offset + 8
        THEN [known |-> FALSE, word_count |-> 0, mem_size |-> 0]
        ELSE LET min_a == WordAt(buffer, mem_offset)
                 max_a == WordAt(buffer, mem_offset + 4)
                 word_count == IF min_a = AllOnes \/ WordLess(max_a, min_a) THEN 1
                               ELSE QuarterDistance(min_a, max_a) + 1
             IN  [known |-> TRUE, word_count |-> word_count,
                  mem_size |-> IF word_count > Len(buffer) THEN Len(buffer) + 1
                               ELSE 8 + word_count * 4]

RECURSIVE process_buffer_DropsPartialBody(_, _)
\* A parser that throws the buffer away when the memory section is incomplete.
process_buffer_DropsPartialBody(buffer, history) ==
    LET stop == [buffer |-> buffer, history |-> history]
    IN  IF Len(buffer) = 0 THEN stop
        ELSE IF buffer[1] # CMD_DUMP_ALERT
        THEN process_buffer_DropsPartialBody(Tail(buffer), history)
        ELSE IF Len(buffer) < HeaderSize THEN stop
        ELSE IF Len(buffer) < HeaderSize + 4 THEN stop
        ELSE LET m == MemSection(buffer)
                 total_size == HeaderSize + m.mem_size
             IN  IF ~m.known THEN stop
                 ELSE IF Len(buffer) >= total_size
                 THEN process_buffer_DropsPartialBody(
                          SubSeq(buffer, total_size + 1, Len(buffer)),
                          Append(history,
                                 decode_packet(SubSeq(buffer, 1, total_size),
                                               buffer[2], m.word_count)))
                 ELSE [buffer |-> <<>>, history |-> history]

RECURSIVE process_buffer_DropsPartialHeader(_, _)
\* A parser that empties the buffer while the fixed header is incomplete.
process_buffer_DropsPartialHeader(buffer, history) ==
    LET stop == [buffer |-> buffer, history |-> history]
    IN  IF Len(buffer) = 0 THEN stop
        ELSE IF buffer[1] # CMD_DUMP_ALERT
        THEN process_buffer_DropsPartialHeader(Tail(buffer), history)
        ELSE IF Len(buffer) < HeaderSize THEN [buffer |-> <<>>, history |-> history]
        ELSE IF Len(buffer) < HeaderSize + 4 THEN stop
        ELSE LET m == MemSection(buffer)
                 total_size == HeaderSize + m.mem_size
             IN  IF ~m.known THEN stop
                 ELSE IF Len(buffer) >= total_size
                 THEN process_buffer_DropsPartialHeader(
                          SubSeq(buffer, total_size + 1, Len(buffer)),
                          Append(history,
                                 decode_packet(SubSeq(buffer, 1, total_size),
                                               buffer[2], m.word_count)))
                 ELSE stop

RECURSIVE process_buffer(_, _)
\* RISCVDumpParser.process_buffer: the buffer and the history it leaves.
process_buffer(buffer, history) ==
    LET stop == [buffer |-> buffer, history |-> history]
    IN  IF Len(buffer) = 0 THEN stop
        ELSE IF buffer[1] # CMD_DUMP_ALERT THEN process_buffer(Tail(buffer), history)
        ELSE IF Len(buffer) < HeaderSize THEN stop
        ELSE IF Len(buffer) < HeaderSize + 4 THEN stop
        ELSE LET m == MemSection(buffer)
                 total_size == HeaderSize + m.mem_size
             IN  IF ~m.known THEN stop
                 ELSE IF Len(buffer) >= total_size
                 THEN process_buffer(
                          SubSeq(buffer, total_size + 1, Len(buffer)),
                          Append(history,
                                 decode_packet(SubSeq(buffer, 1, total_size),
                                               buffer[2], m.word_count)))
                 ELSE stop

-----------------------------------------------------------------------------
(* Blocking reader (executor.py, schemes.py)                               *)

\* The values of MemoryWriteMask.
MemoryWriteMask == {0, 1, 2, 4, 8, 3, 12, 15}

\* AtomicMemTransaction.unpack(words); MemoryWriteMask(words[0]) raises
\* ValueError for a value that is no member of the enumeration.
AtomicUnpackOk(words) ==
    words[1] \subseteq 0..3 /\ Val(words[1]) \in MemoryWriteMask
AtomicMemTransaction_unpack(words) ==
    [kind |-> "atomic", occurred |-> words[1] # {}, address |-> words[2],
     data |-> words[3], type |-> Val(words[1])]

\* MemPatch.unpack(words).  An address is min_addr + (i - 2) * 4 as an
\* unbounded integer; it is kept as the base word and the distance from it.
MemPatch_unpack(words) ==
    [kind |-> "patch", min_address |-> words[1], max_address |-> words[2],
     memory_contents |->
         [k \in 1..(Len(words) - 2) |->
             [base |-> words[1], plus |-> (k - 1) * 4, data |-> words[k + 2]]]]

\* extract_bits(word, shift, width)
extract_bits(word, shift, width) == Val(Field(word, shift, width))

\* The values of the enumerations the latch fields are turned into.
RSn_Source   == {0, 1, 2, 3}
AluIntent    == {0, 1, 2, 3}
Alu_Src_Optn == {0, 1}
RD_Source    == {0, 1}

\* HazardStatus.unpack(word)
HazardStatus_unpack(word) ==
    [pc_write_en     |-> extract_bits(word, 11, 1),
     if_id_write_en  |-> extract_bits(word, 10, 1),
     control_hazard  |-> extract_bits(word, 9, 1),
     load_use_hazard |-> extract_bits(word, 8, 1),
     rs2_data_source |-> extract_bits(word, 6, 2),
     rs1_data_source |-> extract_bits(word, 4, 2),
     program_ended   |-> extract_bits(word, 0, 1)]

\* IF_ID_Status.unpack(words)
IF_ID_Status_unpack(words) ==
    [program_counter_if |-> words[1],
     instruction_if     |-> decode(words[2]),
     incremented_program_counter_if |-> words[3]]

\* ID_EX_Status.unpack(words)
ID_EX_Status_unpack(words) ==
    LET control_word  == words[1]
        metadata_word == words[6]
    IN  [is_halt_id   |-> extract_bits(control_word, 0, 1),
         is_jalr_id   |-> extract_bits(control_word, 1, 1),
         is_jal_id    |-> extract_bits(control_word, 2, 1),
         is_branch_id |-> extract_bits(control_word, 3, 1),
         rd_src_id    |-> extract_bits(control_word, 4, 1),
         alu_intent_id   |-> extract_bits(control_word, 5, 2),
         alu_src_optn_id |-> extract_bits(control_word, 7, 1),
         mem_read_id  |-> extract_bits(control_word, 8, 1),
         mem_write_id |-> extract_bits(control_word, 9, 1),
         reg_write_id |-> extract_bits(control_word, 10, 1),
         pc_id |-> words[2], rs1_data_id |-> words[3], rs2_data_id |-> words[4],
         imm_id |-> words[5],
         funct7_id |-> extract_bits(metadata_word, 0, 7),
         funct3_id |-> extract_bits(metadata_word, 7, 3),
         rd_id  |-> extract_bits(metadata_word, 10, 5),
         rs2_id |-> extract_bits(metadata_word, 15, 5),
         rs1_id |-> extract_bits(metadata_word, 20, 5)]

\* EX_MEM_Status.unpack(words)
EX_MEM_Status_unpack(words) ==
    LET control_word == words[1]
    IN  [funct3_ex    |-> extract_bits(control_word, 0, 3),
         rd_ex        |-> extract_bits(control_word, 3, 5),
         is_halt_ex   |-> extract_bits(control_word, 8, 1),
         rd_src_ex    |-> extract_bits(control_word, 9, 1),
         mem_read_ex  |-> extract_bits(control_word, 10, 1),
         mem_write_ex |-> extract_bits(control_word, 11, 1),
         reg_write_ex |-> extract_bits(control_word, 12, 1),
         pc_ex |-> words[2], store_data_ex |-> words[3], alu_result_ex |-> words[4]]

\* MEM_WB_Status.unpack(words)
MEM_WB_Status_unpack(words) ==
    LET control_word == words[1]
    IN  [rd_mem        |-> extract_bits(control_word, 0, 5),
         is_halt_mem   |-> extract_bits(control_word, 5, 1),
         rd_src_mem    |-> extract_bits(control_word, 6, 1),
         reg_write_mem |-> extract_bits(control_word, 7, 1),
         pc_mem |-> words[2], execution_data_mem |-> words[3],
         memory_data_mem |-> words[4]]

\* PipelineStatus.unpack(memory_dump_mode, words) for the 50 words.
PipelineStatus_unpack(memory_dump_mode, words) ==
    [memory_dump_mode |-> memory_dump_mode,
     register_file |-> SubSeq(words, 1, 32),
     hazard_status |-> HazardStatus_unpack(words[33]),
     if_id_status  |-> IF_ID_Status_unpack(SubSeq(words, 34, 36)),
     id_ex_status  |-> ID_EX_Status_unpack(SubSeq(words, 37, 42)),
     ex_mem_status |-> EX_MEM_Status_unpack(SubSeq(words, 43, 46)),
     mem_wb_status |-> MEM_WB_Status_unpack(SubSeq(words, 47, 50))]

\* The enumeration constructors of PipelineStatus.unpack all succeed.
PipelineUnpackOk(status) ==
    /\ status.hazard_status.rs1_data_source \in RSn_Source
    /\ status.hazard_status.rs2_data_source \in RSn_Source
    /\ status.id_ex_status.rd_src_id \in RD_Source
    /\ status.id_ex_status.alu_intent_id \in AluIntent
    /\ status.id_ex_status.alu_src_optn_id \in Alu_Src_Optn
    /\ status.ex_mem_status.rd_src_ex \in RD_Source
    /\ status.mem_wb_status.rd_src_mem \in RD_Source

\* (b - a + k) // 4 for words a and b, through their 16-bit halves.
FloorQuarter(a, b, k) ==
    (HiHalf(b) - HiHalf(a)) * 16384 + ((LoHalf(b) - LoHalf(a) + k) \div 4)

\* num_words of read_pipeline_packet for the pair it has read.
num_words(min_a, max_a) ==
    IF max_a = min_a THEN 1 ELSE FloorQuarter(min_a, max_a, -1) + 2

\* SerialManager.read_pipeline_packet on a port that delivers stream and
\* nothing more.  The port is opened with timeout=None, so a read that asks
\* for more bytes than will come takes what there is and never returns
\* ("blocked").  An exception leaves the call with status "error" after the
\* reads made before it.
read_pipeline_packet(stream) ==
    LET result(st, n, ps, mem) ==
            [status |-> st, consumed |-> n, pipeline |-> ps, memory |-> mem]
        blocked == result("blocked", Len(stream), NoStatus, NoMemory)
        words(pos, n) == [k \in 1..n |-> WordAt(stream, pos + (k - 1) * 4)]
    IN  IF ~ \E i \in 1..Len(stream) : stream[i] = CMD_DUMP_ALERT THEN blocked
        ELSE
        LET alert == CHOOSE i \in 1..Len(stream) :
                        /\ stream[i] = CMD_DUMP_ALERT
                        /\ \A j \in 1..(i - 1) : stream[j] # CMD_DUMP_ALERT
            pPipe == alert + 1
            pPad  == pPipe + SIZE_REG_FILE + SIZE_PIPELINE
            pMem  == pPad + 4
        IN  IF Len(stream) < pPad THEN blocked
            ELSE
            LET dump_mode == IF stream[alert + 1] = 0 THEN "SNOOP_BASED"
                             ELSE "RANGE_BASED"
                pipeline_status == PipelineStatus_unpack(dump_mode, words(pPipe, 50))
                error(n) == result("error", n, NoStatus, NoMemory)
                ok(n, mem) == result("ok", n, pipeline_status, mem)
            IN  IF ~PipelineUnpackOk(pipeline_status) THEN error(pPad)
                ELSE IF Len(stream) < pMem THEN blocked
                ELSE IF dump_mode = "SNOOP_BASED"
                THEN IF Len(stream) < pMem + 4 THEN blocked
                     ELSE IF WordAt(stream, pMem) = {}
                     THEN ok(pMem + 4, AtomicMemTransaction_unpack(<<{}, {}, {}>>))
                     ELSE IF Len(stream) < pMem + 12 THEN blocked
                     ELSE IF ~AtomicUnpackOk(words(pMem, 3)) THEN error(pMem + 12)
                     ELSE ok(pMem + 12, AtomicMemTransaction_unpack(words(pMem, 3)))
                ELSE IF Len(stream) < pMem + 8 THEN blocked
                     ELSE
                     LET min_a == WordAt(stream, pMem)
                         max_a == WordAt(stream, pMem + 4)
                         n     == num_words(min_a, max_a)
                     IN  IF min_a = AllOnes /\ max_a = {}
                         THEN ok(pMem + 8, MemPatch_unpack(<<AllOnes, {}, {}>>))
                         ELSE IF n < 0 THEN error(pMem + 8)
                         ELSE IF n > Len(stream) \/ Len(stream) < pMem + 8 + n * 4
                         THEN blocked
                         ELSE ok(pMem + 8 + n * 4, MemPatch_unpack(words(pMem, n + 2)))

-----------------------------------------------------------------------------
(* Byte streams the serial link delivers to the parser                     *)

MaxNoise == 2

CMD_STEP_NEXT == 174

LE32(n) == PackLE(Bits(n))

\* The 200 bytes of register file and pipeline latches after the mode byte.
QuietDump == [i \in 1..(SIZE_REG_FILE + SIZE_PIPELINE) |-> 0]
BusyDump ==
    [i \in 1..(SIZE_REG_FILE + SIZE_PIPELINE) |->
        IF i \in {5, 131, 200} THEN CMD_DUMP_ALERT
        ELSE IF i \in {129, 130, 145, 146, 165, 166, 167, 169, 170, 185, 186}
             THEN 255 - (i % 16)
        ELSE i % 7]

\* Memory sections of step packets: the write flag, then address and data
\* when a store happened (the flag is the store's byte mask).
SnoopSections ==
    {LE32(0)} \cup
    {LE32(f) \o LE32(a) \o LE32(d) : f \in {1, 15}, a \in {16, CMD_DUMP_ALERT}, d \in {7}}

\* Memory sections of continuous packets: min, max, then the words of the
\* range.
RangeSections ==
    { LE32(16) \o LE32(16) \o LE32(CMD_DUMP_ALERT),
      LE32(16) \o LE32(20) \o LE32(3) \o LE32(CMD_DUMP_ALERT * 256) }

\* The empty range: min = 0xFFFFFFFF, max = 0, with and without a
\* placeholder word behind it.
SentinelSections ==
    { PackLE(AllOnes) \o LE32(0), PackLE(AllOnes) \o LE32(0) \o LE32(0) }

Packet(mode, dump, section) == <<CMD_DUMP_ALERT, mode>> \o dump \o section

StepPackets  == {Packet(0, QuietDump, LE32(0))}
                    \cup {Packet(0, d, m) : d \in {BusyDump}, m \in SnoopSections}
RangePackets == {Packet(1, d, m) : d \in {BusyDump}, m \in RangeSections}
SentinelPackets == {Packet(1, d, m) : d \in {QuietDump}, m \in SentinelSections}

NoiseRuns == {[i \in 1..n |-> IF i = 2 THEN 0 ELSE CMD_STEP_NEXT] : n \in 0..MaxNoise}
Tails == { <<>>, <<CMD_DUMP_ALERT>>, <<0, CMD_DUMP_ALERT, 0, 7>> }

ParserInputs ==
    {[noise |-> n, packet |-> p, tail |-> t, kind |-> "step"] :
        n \in NoiseRuns, p \in StepPackets, t \in Tails}
    \cup
    {[noise |-> n, packet |-> p, tail |-> t, kind |-> "range"] :
        n \in NoiseRuns, p \in RangePackets, t \in Tails}
    \cup
    {[noise |-> n, packet |-> p, tail |-> t, kind |-> "sentinel"] :
        n \in NoiseRuns, p \in SentinelPackets, t \in Tails}

\* Streams handed over in one piece.  The first group has the memory section
\* right behind the pipeline words: a step packet without a store and four
\* more bytes, a word store (mask 15) to address 8, a range whose ends are
\* not a multiple of four apart, one whose maximum is below its minimum, and
\* a step packet whose flag is no byte mask, with the start of the next
\* packet behind it.
\* The second group has one pad word between the pipeline words and the
\* memory section.
PadWord == LE32(0)
PlainSections ==
    { [m |-> LE32(0), t |-> LE32(0)],
      [m |-> LE32(15) \o LE32(8) \o LE32(7), t |-> LE32(3)],
      [m |-> LE32(16) \o LE32(21) \o LE32(3) \o LE32(5), t |-> LE32(9)],
      [m |-> LE32(20) \o LE32(16), t |-> LE32(9)],
      [m |-> LE32(5) \o LE32(16) \o LE32(7), t |-> <<CMD_DUMP_ALERT, 0, 0, 0>>] }
PaddedSections ==
    { [m |-> LE32(0), t |-> <<>>],
      [m |-> LE32(15) \o LE32(16) \o LE32(7), t |-> <<>>],
      [m |-> LE32(5) \o LE32(16) \o LE32(7), t |-> <<>>],
      [m |-> PackLE(AllOnes) \o LE32(0), t |-> LE32(9)],
      [m |-> LE32(16) \o LE32(16) \o LE32(3), t |-> <<>>],
      [m |-> LE32(16) \o LE32(20) \o LE32(3) \o LE32(5), t |-> <<>>],
      [m |-> LE32(16) \o LE32(21) \o LE32(3) \o LE32(5), t |-> LE32(9)],
      [m |-> LE32(20) \o LE32(16), t |-> LE32(9)],
      [m |-> LE32(24) \o LE32(16), t |-> LE32(9)] }

\* The mode byte that goes with a memory section of the two groups: the
\* sections that start with a flag of 0, 5 or 15 belong to step packets.
ModeOf(section) == IF section[1] \in {0, 5, 15} THEN 0 ELSE 1

WholeInputs ==
    {[noise |-> <<>>, packet |-> Packet(ModeOf(x.m), QuietDump, x.m), tail |-> x.t,
      kind |-> "plain"] : x \in PlainSections}
    \cup
    {[noise |-> <<CMD_STEP_NEXT>>,
      packet |-> Packet(ModeOf(x.m), QuietDump, PadWord \o x.m), tail |-> x.t,
      kind |-> "padded"] : x \in PaddedSections}
    \cup
    {[noise |-> <<>>,
      packet |-> Packet(0, BusyDump, PadWord \o LE32(15) \o LE32(16) \o LE32(7)),
      tail |-> <<>>, kind |-> "padded"]}

Stream == p_input.noise \o p_input.packet \o p_input.tail

\* Sizes of the chunks one read of the port hands over.
ChunkSizes == {1, 3, 100}

\* The chunk sizes tried on an input besides all of the rest at once.
Chunks(input) == IF input.kind \in {"plain", "padded"} THEN {} ELSE ChunkSizes

ParserInit ==
    /\ p_input \in ParserInputs \cup WholeInputs
    /\ p_pos = 0
    /\ p_buffer = <<>>
    /\ p_history = <<>>
    /\ e_read = NotRead

\* RISCVDumpParser.add_data with the next chunk of the stream
ParserAddData ==
    /\ p_input.kind # "none"
    /\ e_read = NotRead
    /\ p_pos < Len(Stream)
    /\ \E n \in Chunks(p_input) \cup {Len(Stream) - p_pos} :
        LET upto == IF p_pos + n > Len(Stream) THEN Len(Stream) ELSE p_pos + n
            data == SubSeq(Stream, p_pos + 1, upto)
            r    == process_buffer(p_buffer \o data, p_history)
        IN  /\ p_pos' = upto
            /\ p_buffer' = r.buffer
            /\ p_history' = r.history
    /\ UNCHANGED <<p_input, e_read>>
    /\ UNCHANGED <<codecVars, asmVars, loaderVars, sessionVars>>

\* SerialManager.read_pipeline_packet as the reader of the same stream, in
\* place of the streaming parser.
ExecutorReadPacket ==
    /\ p_input.kind # "none"
    /\ e_read = NotRead
    /\ p_pos = 0
    /\ e_read' = read_pipeline_packet(Stream)
    /\ UNCHANGED <<p_input, p_pos, p_buffer, p_history>>
    /\ UNCHANGED <<codecVars, asmVars, loaderVars, sessionVars>>

InitParser == ParserInit /\ CodecIdle /\ AsmIdle /\ LoaderIdle /\ SessionIdle
NextParser ==
    \/ ParserAddData
    \/ ExecutorReadPacket
SpecParser == InitParser /\ [][NextParser]_vars

-----------------------------------------------------------------------------
(* Claims about the telemetry parser                                       *)

\* The stream is one packet and nothing behind it, and all of it has been fed.
WholePacketFed ==
    /\ p_input.kind \in {"step", "range"}
    /\ p_input.tail = <<>>
    /\ p_pos = Len(Stream)

\* C1: chunking invariance.  However the bytes fed so far were split into
\* add_data calls, the history and the buffer are what one add_data call with
\* all of those bytes leaves; one complete packet gives exactly one snapshot.
C1_ChunkingInvariance ==
    p_input.kind # "none" =>
        LET whole == process_buffer(SubSeq(Stream, 1, p_pos), <<>>)
        IN  /\ p_history = whole.history
            /\ p_buffer = whole.buffer
            /\ WholePacketFed => Len(p_history) = 1

\* A continuous packet cut inside its memory section: the parser holds the
\* sync byte, the header and part of the min/max pair, and has emitted nothing.
C1_Witness ==
    /\ p_input.kind = "range"
    /\ Len(p_input.noise) > 0
    /\ p_history = <<>>
    /\ p_buffer # <<>>
    /\ p_buffer[1] = CMD_DUMP_ALERT
    /\ Len(p_buffer) > HeaderSize + 4
    /\ Len(p_buffer) < HeaderSize + 8
    /\ C1_ChunkingInvariance

\* The number of content words a continuous packet carries.
WordsCarried(packet) ==
    IF packet[2] = 0 THEN 0 ELSE (Len(packet) - HeaderSize - 8) \div 4

\* C2: noise tolerance.  After noise bytes and one complete packet the parser
\* has emitted exactly one snapshot, the decoding of that packet, and its
\* buffer is empty: no 0xDA byte inside the packet was taken as a packet start.
C2_NoiseThenOnePacket ==
    WholePacketFed =>
        /\ Len(p_history) = 1
        /\ p_history[1] = decode_packet(p_input.packet, p_input.packet[2],
                                        WordsCarried(p_input.packet))
        /\ p_buffer = <<>>

-----------------------------------------------------------------------------
(* All-or-nothing assembly (C13)                                           *)

PSEUDO == {"nop", "mv", "li", "blt"}

\* The operand position that names a label, 0 when the line has none.
LabelPos(line) ==
    CASE line.op \in {"beq", "bne", "blt"} -> 3
      [] line.op = "jal"                    -> 2
      [] OTHER                              -> 0

UnknownMnemonic(line) ==
    line.op # "" /\ line.op \notin DOMAIN INSTRUCTIONS \cup PSEUDO

\* An operand that is neither an integer literal, nor a label reference, nor a
\* register of the table.
MalformedOperand(line) ==
    \E i \in DOMAIN line.args :
        /\ i # LabelPos(line)
        /\ line.args[i].k # "imm"
        /\ line.args[i].s \notin DOMAIN REGISTERS

\* A reference to a label no line of the source defines.
UndefinedLabel(src, line) ==
    /\ LabelPos(line) \in DOMAIN line.args
    /\ Lower(line.args[LabelPos(line)].s)
           \notin {Lower(src[j].lbl) : j \in {h \in DOMAIN src : src[h].lbl # ""}}

BadSource(src) ==
    \E i \in DOMAIN src :
        UnknownMnemonic(src[i]) \/ MalformedOperand(src[i]) \/ UndefinedLabel(src, src[i])

-----------------------------------------------------------------------------
(* Decoder totality (C14) and relative offsets (C19)                       *)

\* decode has been applied to c_word.
WordDecoded == c_phase \in {"decoded", "disassembled", "reassembled"}

\* No entry of the mnemonic table has the word's opcode together with its
\* funct3 / funct7 bits or a wildcard in their place.
NoKeyMatches(word) ==
    ~ \E k \in DOMAIN MNEMONIC_MAP :
          /\ k[1] = Val(Field(word, 0, 7))
          /\ k[2] \in {None, Val(Field(word, 12, 3))}
          /\ k[3] \in {None, Val(Field(word, 25, 7))}

\* C14: decode returns an instruction for every word; it carries the word and
\* its 7-bit opcode, and when the opcode has no format or no key of the
\* mnemonic table matches, its mnemonic is "unknown" (with the base format
\* when the opcode has none).
C14_DecodeTotal ==
    WordDecoded =>
        LET opcode == Val(Field(c_word, 0, 7))
        IN  /\ c_instr.word = c_word
            /\ c_instr.opcode = opcode
            /\ opcode \notin DOMAIN FORMAT_MAP =>
                   c_instr.cls = "BaseInstruction" /\ c_instr.mnemonic = "unknown"
            /\ NoKeyMatches(c_word) => c_instr.mnemonic = "unknown"
            /\ c_instr.mnemonic \in {"unknown"} \cup DOMAIN INSTRUCTIONS

\* An R-format word whose funct7 names no instruction.
C14_Witness ==
    /\ c_phase = "disassembled"
    /\ c_instr.cls = "RType"
    /\ c_instr.funct7 = 127
    /\ c_instr.mnemonic = "unknown"
    /\ c_instr.opcode = OP_R_TYPE

\* C19: the immediate decoded from an assembled beq / bne / jal equals the
\* label's address minus the address of the instruction itself, for forward
\* and backward targets inside the field's range.
C19_OffsetRelativeToInstruction ==
    (c_phase = "decoded" /\ LineType(c_line) \in {"B", "J"}
        /\ InRange(c_line, c_pc, c_labels) /\ RegsInRange(c_line)) =>
        LET target == c_labels[Lower(c_line.args[LabelPos(c_line)].s)]
        IN  /\ c_instr.imm = target - c_pc
            /\ (target = c_pc + 8) => c_instr.imm = 8
            /\ (target = c_pc - 4) => c_instr.imm = -4

\* beq at address 16 to a label at address 12.
C19_Witness ==
    /\ c_phase = "decoded"
    /\ c_line.op = "beq"
    /\ c_pc = 16
    /\ c_labels = ("loop" :> 12)
    /\ c_instr.imm = -4

-----------------------------------------------------------------------------
(* li expansion (C20): assemble_file on a source of one li line.           *)

MaxShift == 29

\* Immediates around every power of two up to 2^MaxShift, of either sign,
\* the ends of the addi range and of the 32-bit range, and literals of 2^31
\* and more.
LiMagnitudes == {2^j + d : j \in 0..MaxShift, d \in {-1, 0}}
                    \cup {100, 2047, 2048, 2049, 6144, 2147483647}
LiTokens ==
    {Imm(m) : m \in LiMagnitudes} \cup {Imm(-m) : m \in LiMagnitudes}
        \cup {BigImm(-m) : m \in LiMagnitudes \ {0}}
LiRegs == {Reg("x5", 5), Reg("t0", 5), Reg("ra", 1)}
LiPrograms == {<<Instr("li", <<rd, tok>>)>> : rd \in LiRegs, tok \in LiTokens}

LiInit ==
    /\ a_phase = "source" /\ a_src \in LiPrograms
    /\ a_lines = <<>> /\ a_labels = NoLabels /\ a_instrs = <<>>
    /\ a_code = <<>> /\ a_payload = <<>> /\ a_result = "none"
    /\ a_file = NoFile

InitLi == LiInit /\ CodecIdle /\ LoaderIdle /\ ParserIdle /\ SessionIdle

SpecLi == InitLi /\ [][NextAsm]_vars

\* The source is one li line with a register and an immediate.
OneLi == Len(a_src) = 1 /\ a_src[1].lbl = "" /\ a_src[1].op = "li"
             /\ Len(a_src[1].args) = 2 /\ ImmOk(a_src[1].args[2])

\* lui rd, upper and addi rd, rd, lower (lower = 0 when there is no addi)
\* load imm: lower is a 12-bit signed number congruent to imm modulo 4096, and
\* the upper 20 bits, less the borrow of a negative lower, are those of imm.
LoadsImm(upper, lower, imm) ==
    /\ -2048 <= lower /\ lower <= 2047
    /\ lower % 4096 = imm % 4096
    /\ ((upper % 2^20) + (lower \div 4096)) % 2^20 = (imm \div 4096) % 2^20

\* C20: li rd, imm expands to one addi rd, zero, imm when imm is in
\* -2048..2047, and otherwise to lui rd, upper followed by addi rd, rd, lower
\* exactly when lower is not 0, where upper and lower load imm modulo 2^32;
\* the lui word carries upper modulo 2^20 in its upper 20 bits.
C20_LiExpansion ==
    (OneLi /\ a_phase # "source") =>
        LET rd  == a_src[1].args[1]
            tok == a_src[1].args[2]
            n   == Len(a_lines)
        IN  /\ a_result # "error"
            /\ IF FitsAddi(tok)
               THEN a_lines = <<Instr("addi", <<rd, Reg("zero", 0), Imm(tok.n)>>)>>
               ELSE /\ n \in {1, 2}
                    /\ a_lines[1].op = "lui" /\ a_lines[1].args[1] = rd
                    /\ Len(a_lines[1].args) = 2
                    /\ n = 2 => /\ a_lines[2].op = "addi"
                                /\ SubSeq(a_lines[2].args, 1, 2) = <<rd, rd>>
                                /\ a_lines[2].args[3].n # 0
                    /\ LoadsImm(a_lines[1].args[2].n,
                                IF n = 2 THEN a_lines[2].args[3].n ELSE 0, tok.n)
                    /\ a_phase = "done" =>
                           /\ Len(a_code) = n
                           /\ Val(Field(a_code[1], 12, 20))
                                  = a_lines[1].args[2].n % 2^20
            /\ (tok = BigImm(-2048)) => n = 2
            /\ (tok = Imm(100)) => n = 1

\* li x5, 0xFFFFF800 assembled to its two words.
C20_Witness ==
    /\ a_phase = "done" /\ a_result = "ok"
    /\ a_src = <<Instr("li", <<Reg("x5", 5), BigImm(-2048)>>)>>
    /\ Len(a_code) = 2
    /\ a_lines[1] = Instr("lui", <<Reg("x5", 5), Imm(1048576)>>)

-----------------------------------------------------------------------------
(* Framing of the memory section (C15 .. C18)                              *)

\* The stream holds one packet whose memory section comes right behind the
\* pipeline words, as the protocol describes it.
SectionFollowsHeader == p_input.kind \in {"step", "range", "sentinel", "plain"}

PacketMode    == p_input.packet[2]
SectionWord(k) == WordAt(p_input.packet, HeaderSize + 4 * k)

\* All of the stream has gone through add_data.
AllFed == p_pos = Len(Stream)
\* read_pipeline_packet has run on the stream.
ReaderRan == e_read.status # "none"

\* What the streaming parser keeps of the bytes that follow the first n bytes
\* of the packet, when it starts on them afresh.
RestAfter(n) ==
    process_buffer(SubSeq(Stream, Len(p_input.noise) + n + 1, Len(Stream)), <<>>).buffer

\* C15: a step packet whose flag word is 0 ends with the flag word.  The
\* streaming parser emits one snapshot without a store and is left with what
\* follows the flag word; the blocking reader returns having consumed the
\* packet up to the flag word and reports that no store occurred.
C15_SnoopNoWrite ==
    (SectionFollowsHeader /\ PacketMode = 0 /\ SectionWord(0) = {}) =>
        /\ AllFed =>
              /\ Len(p_history) = 1
              /\ ~p_history[1].memory.step_write_flag
              /\ p_buffer = RestAfter(HeaderSize + 4)
        /\ ReaderRan =>
              /\ e_read.status = "ok"
              /\ e_read.consumed = Len(p_input.noise) + HeaderSize + 4
              /\ ~e_read.memory.occurred

\* C16: a step packet whose flag word is not 0 carries address and data in
\* the 8 bytes behind the flag word.  Both readers consume the 12 bytes with
\* the packet and report the store with that address and data; the reader's
\* record has the flag as its mask.
C16_SnoopWrite ==
    (SectionFollowsHeader /\ PacketMode = 0 /\ SectionWord(0) # {}) =>
        /\ AllFed =>
              /\ Len(p_history) = 1
              /\ p_history[1].memory.step_write_flag
              /\ p_history[1].memory.step_addr = SectionWord(1)
              /\ p_history[1].memory.step_data = SectionWord(2)
              /\ p_buffer = RestAfter(HeaderSize + 12)
        /\ ReaderRan =>
              /\ e_read.status = "ok"
              /\ e_read.consumed = Len(p_input.noise) + HeaderSize + 12
              /\ e_read.memory.occurred
              /\ e_read.memory.address = SectionWord(1)
              /\ e_read.memory.data = SectionWord(2)
              /\ Bits(e_read.memory.type) = SectionWord(0)

\* C17: a continuous packet whose pair is min = 0xFFFFFFFF, max = 0 ends with
\* the pair.  Both readers consume the 8 bytes and nothing behind them, and
\* the memory record has no content words; a record of the blocking reader
\* with that pair has no contents wherever the pair stood in the stream.
C17_EmptyRangeSentinel ==
    /\ (SectionFollowsHeader /\ PacketMode # 0
            /\ SectionWord(0) = AllOnes /\ SectionWord(1) = {}) =>
        /\ AllFed =>
              /\ Len(p_history) = 1
              /\ p_history[1].memory.range_words = <<>>
              /\ p_buffer = RestAfter(HeaderSize + 8)
        /\ ReaderRan =>
              /\ e_read.status = "ok"
              /\ e_read.consumed = Len(p_input.noise) + HeaderSize + 8
    /\ (e_read.status = "ok" /\ e_read.memory.kind = "patch"
            /\ e_read.memory.min_address = AllOnes
            /\ e_read.memory.max_address = {}) =>
        e_read.memory.memory_contents = <<>>

\* (max - min) div 4 + 1
RangeWordCount(min_a, max_a) == FloorQuarter(min_a, max_a, 0) + 1

IsSentinel(min_a, max_a) == min_a = AllOnes /\ max_a = {}

\* The word count the streaming parser computes for a pair.
StreamingWordCount(min_a, max_a) ==
    MemSection(Packet(1, QuietDump, PackLE(min_a) \o PackLE(max_a))).word_count

\* C18: for a pair that is not the empty sentinel both readers take
\* (max - min) div 4 + 1 payload words, never a negative number of them; the
\* i-th word belongs to address min + 4 * i; and the two readers compute the
\* same count for the same pair.
C18_RangePayloadSize ==
    /\ \A i \in DOMAIN p_history :
          LET m == p_history[i].memory
          IN  (m.mode # 0 /\ ~IsSentinel(m.range_min, m.range_max)) =>
                  /\ RangeWordCount(m.range_min, m.range_max) >= 0
                  /\ Len(m.range_words) = RangeWordCount(m.range_min, m.range_max)
    /\ (ReaderRan /\ e_read.status # "blocked" /\ p_input.kind = "padded"
            /\ PacketMode # 0 /\ ~IsSentinel(SectionWord(1), SectionWord(2))) =>
          LET min_a == SectionWord(1)
              max_a == SectionWord(2)
              m     == e_read.memory
          IN  /\ e_read.status = "ok"
              /\ RangeWordCount(min_a, max_a) >= 0
              /\ Len(m.memory_contents) = RangeWordCount(min_a, max_a)
              /\ \A k \in DOMAIN m.memory_contents :
                    /\ m.memory_contents[k].base = min_a
                    /\ m.memory_contents[k].plus = 4 * (k - 1)
              /\ Len(m.memory_contents) = StreamingWordCount(min_a, max_a)

-----------------------------------------------------------------------------
(* Sign extension (C21) and mnemonic resolution (C25)                      *)

\* The raw immediate field of a word in each format, as a number.
Bit(word, i) == IF i \in word THEN 1 ELSE 0
RawImm(cls, word) ==
    CASE cls = "IType" -> Val(Field(word, 20, 12))
      [] cls = "SType" -> Val(Field(word, 25, 7)) * 32 + Val(Field(word, 7, 5))
      [] cls = "BType" -> Bit(word, 31) * 4096 + Bit(word, 7) * 2048
                              + Val(Field(word, 25, 6)) * 32 + Val(Field(word, 8, 4)) * 2
      [] cls = "JType" -> Bit(word, 31) * 1048576 + Val(Field(word, 12, 8)) * 4096
                              + Bit(word, 20) * 2048 + Val(Field(word, 21, 10)) * 2
ImmBits(cls) ==
    CASE cls \in {"IType", "SType"} -> 12
      [] cls = "BType" -> 13
      [] cls = "JType" -> 21

\* C21: an I-type line with an immediate v in -2048..2047 is encoded with
\* v mod 2^12 in bits 31:20 (0xFFF for -1); and the immediate decoded from an
\* I-, S-, B- or J-type word is the signed value of its raw field: the raw
\* field itself below the top bit, raw - 2^bits from the top bit on.  The two
\* words of the self test decode to -1 and -4.
C21_SignExtension ==
    /\ (LineEncoded /\ LineType(c_line) = "I" /\ RegsInRange(c_line)
            /\ c_line.args[3].n \in -2048..2047) =>
          /\ Val(Field(c_word, 20, 12)) = c_line.args[3].n % 4096
          /\ c_line.args[3].n = -1 => Field(c_word, 20, 12) = 0..11
    /\ (WordDecoded /\ c_instr.cls \in {"IType", "SType", "BType", "JType"}) =>
          LET raw  == RawImm(c_instr.cls, c_word)
              bits == ImmBits(c_instr.cls)
          IN  c_instr.imm = IF raw >= 2^(bits - 1) THEN raw - 2^bits ELSE raw
    /\ (WordDecoded /\ c_word = NegAddiWord) => c_instr.imm = -1
    /\ (WordDecoded /\ c_word = NegBeqWord) => c_instr.imm = -4

\* The self-test branch word decoded to beq with offset -4.
C21_Witness ==
    /\ c_phase = "disassembled"
    /\ c_word = NegBeqWord
    /\ c_instr.mnemonic = "beq"
    /\ c_instr.imm = -4

\* The formats that have a funct3 field.
WithFunct3 == {"RType", "IType", "SType", "BType", "SystemType"}

\* C25: the mnemonic is that of the first key present in the table among
\* (opcode, funct3, funct7), (opcode, funct3, None), (opcode, None, None), and
\* "unknown" when none is present; funct7 is bits 31:25 for the R-type,
\* I-type-arithmetic and SYSTEM opcodes and absent for every other opcode,
\* where bits 31:25 therefore have no influence on the mnemonic.
C25_MnemonicResolution ==
    WordDecoded =>
        LET op == Val(Field(c_word, 0, 7))
            f3 == IF c_instr.cls \in WithFunct3 THEN Val(Field(c_word, 12, 3)) ELSE None
            f7 == IF op \in {OP_R_TYPE, OP_I_TYPE, OP_SYSTEM}
                  THEN Val(Field(c_word, 25, 7)) ELSE None
            k1 == <<op, f3, f7>>
            k2 == <<op, f3, None>>
            k3 == <<op, None, None>>
        IN  /\ c_instr.mnemonic =
                  IF k1 \in DOMAIN MNEMONIC_MAP THEN MNEMONIC_MAP[k1]
                  ELSE IF k2 \in DOMAIN MNEMONIC_MAP THEN MNEMONIC_MAP[k2]
                  ELSE IF k3 \in DOMAIN MNEMONIC_MAP THEN MNEMONIC_MAP[k3]
                  ELSE "unknown"
            /\ op \notin {OP_R_TYPE, OP_I_TYPE, OP_SYSTEM} =>
                  c_instr.mnemonic = decode(c_word \ (25..31)).mnemonic
            /\ (op = OP_I_TYPE /\ f3 = 5 /\ f7 = 32) => c_instr.mnemonic = "srai"
            /\ (op = OP_I_TYPE /\ f3 = 1 /\ f7 = 1) => c_instr.mnemonic = "unknown"

\* An addi whose upper immediate bits are all set: the exact key is absent
\* and the second key names it.
C25_Witness ==
    /\ c_phase = "disassembled"
    /\ c_instr.opcode = OP_I_TYPE
    /\ c_instr.funct3 = 0
    /\ Val(Field(c_word, 25, 7)) = 127
    /\ c_instr.mnemonic = "addi"

-----------------------------------------------------------------------------
(* Labels that share a line with an instruction (C26)                      *)

\* The source with every "name: instr" line written as two lines, the label
\* and then the instruction.
RECURSIVE SplitLabels(_)
SplitLabels(src) ==
    IF src = <<>> THEN <<>>
    ELSE LET h == Head(src)
         IN  (IF h.lbl # "" /\ h.op # ""
              THEN <<LabelLine(h.lbl), Instr(h.op, h.args)>> ELSE <<h>>)
             \o SplitLabels(Tail(src))

\* assemble(source_lines): the label table and the words, or a failure.
assemble(source_lines) ==
    LET x  == expand_macros(source_lines)
        p1 == Pass1(x.lines, NoLabels, 0, <<>>)
        p2 == Pass2(p1.instrs, p1.labels)
    IN  IF x.ok /\ p2.ok THEN [ok |-> TRUE, labels |-> p1.labels, code |-> p2.code]
        ELSE [ok |-> FALSE, labels |-> NoLabels, code |-> <<>>]

SharesLine(src) == \E i \in DOMAIN src : src[i].lbl # "" /\ src[i].op # ""

\* C26: a source in which labels share lines with instructions assembles to
\* the words and the label addresses of the source that has each such label
\* on a line of its own, whenever the latter assembles.
C26_LabelOnInstructionLine ==
    (a_phase = "done" /\ SharesLine(a_src)) =>
        LET alone == assemble(SplitLabels(a_src))
        IN  (alone.ok /\ \A i \in DOMAIN alone.code : Packable(alone.code[i])) =>
                /\ a_result = "ok"
                /\ a_code = alone.code
                /\ a_labels = alone.labels

-----------------------------------------------------------------------------
(* Waiting for bytes (C24)                                                 *)

\* The bytes add_data has been given so far, from the sync byte of the packet.
FedFromSync == SubSeq(Stream, Len(p_input.noise) + 1, p_pos)

\* C24: while the packet at the head of the buffer is incomplete the parser
\* keeps every byte it was given from the sync byte on and emits nothing; its
\* buffer is always the end of the bytes given, starting at a sync byte, and
\* running process_buffer again without new data changes neither the buffer
\* nor the history.
C24_WaitingKeepsBytes ==
    p_input.kind # "none" =>
        /\ process_buffer(p_buffer, p_history)
               = [buffer |-> p_buffer, history |-> p_history]
        /\ p_buffer = SubSeq(Stream, p_pos - Len(p_buffer) + 1, p_pos)
        /\ p_buffer # <<>> => p_buffer[1] = CMD_DUMP_ALERT
        /\ (p_pos > Len(p_input.noise) /\ p_pos < Len(p_input.noise) + HeaderSize + 4) =>
               /\ p_history = <<>>
               /\ p_buffer = FedFromSync
        /\ p_history = <<>> =>
               (p_pos > Len(p_input.noise) => p_buffer = FedFromSync)

\* A step packet with a store, cut inside its address and data words.
C24_Witness ==
    /\ p_input.kind = "step"
    /\ p_history = <<>>
    /\ Len(p_buffer) > HeaderSize + 4
    /\ Len(p_buffer) < HeaderSize + 12
    /\ p_buffer[1] = CMD_DUMP_ALERT
    /\ WordAt(p_buffer, HeaderSize) = Bits(1)

-----------------------------------------------------------------------------
(* Failing packets (C22)                                                   *)

IsByteMask(word) == word \subseteq 0..3 /\ Val(word) \in MemoryWriteMask

\* C22: a step packet whose flag word is not one of the byte masks makes
\* read_pipeline_packet fail, and it fails having consumed the bytes of that
\* packet and no others, so that the next read starts at the sync byte of the
\* next packet.
C22_DecodeFailureConfined ==
    (SectionFollowsHeader /\ PacketMode = 0 /\ ~IsByteMask(SectionWord(0))
        /\ ReaderRan) =>
        /\ e_read.status = "error"
        /\ e_read.consumed = Len(p_input.noise) + Len(p_input.packet)

-----------------------------------------------------------------------------
(* Order of the latch words (C27)                                          *)

\* The k-th of the 50 words behind the mode byte of the packet, k from 1.
HeaderWord(k) == WordAt(p_input.packet, 2 + 4 * (k - 1))

\* C27: both decoders read the EX/MEM words as control, ALU result, store
\* data, PC and the MEM/WB words as control, execution data, memory-read data,
\* PC: the snapshot of the streaming parser and the status of the blocking
\* reader carry words 44, 45, 46 and 48, 49, 50 of the header in these fields.
C27_LatchWordOrder ==
    /\ Len(p_history) >= 1 =>
          LET ex == p_history[1].ex_mem
              wb == p_history[1].mem_wb
          IN  /\ ex.alu_res = HeaderWord(44) /\ ex.store_data = HeaderWord(45)
              /\ ex.pc = HeaderWord(46)
              /\ wb.exec_data = HeaderWord(48) /\ wb.read_data = HeaderWord(49)
              /\ wb.pc = HeaderWord(50)
    /\ (ReaderRan /\ e_read.status = "ok") =>
          LET ex == e_read.pipeline.ex_mem_status
              wb == e_read.pipeline.mem_wb_status
          IN  /\ ex.alu_result_ex = HeaderWord(44) /\ ex.store_data_ex = HeaderWord(45)
              /\ ex.pc_ex = HeaderWord(46)
              /\ wb.execution_data_mem = HeaderWord(48)
              /\ wb.memory_data_mem = HeaderWord(49)
              /\ wb.pc_mem = HeaderWord(50)

-----------------------------------------------------------------------------
(* Execution sessions (executor.py, state.py, pages/step_debug.py)         *)

CMD_MODE_CONT == 206

\* perform_step invocations that may be awaiting their packet at once,
\* packets the device sends in a step session, and packets of a continuous
\* run.
MaxTasks   == 2
MaxPackets == 2
MaxStream  == 3

\* The 200 bytes of a dump whose registers x5 and x6 hold r5 and r6 and whose
\* hazard word has program_ended = ended; everything else is zero.
DeviceDump(r5, r6, ended) ==
    [i \in 1..(SIZE_REG_FILE + SIZE_PIPELINE) |->
        IF i = 21 THEN r5 ELSE IF i = 25 THEN r6 ELSE IF i = 129 THEN ended ELSE 0]

\* What a device sends behind a dump: the memory section right after the
\* header ("plain") or behind the word read_pipeline_packet skips before it
\* ("padded").
Formats == {"plain", "padded"}
Framed(fmt, section) == IF fmt = "padded" THEN PadWord \o section ELSE section

\* Snapshots of a program under single stepping: nothing written yet, a step
\* that wrote x5 and x6 and stored a word, and the halted machine.
StepFrames ==
    { [dump |-> DeviceDump(0, 0, 0), section |-> LE32(0)],
      [dump |-> DeviceDump(1, 2, 0), section |-> LE32(15) \o LE32(16) \o LE32(7)],
      [dump |-> DeviceDump(1, 2, 1), section |-> LE32(0)] }

RECURSIVE RunsOf(_, _)
RunsOf(frames, n) ==
    IF n = 0 THEN {<<>>}
    ELSE {<<f>> \o r : f \in frames, r \in RunsOf(frames, n - 1)}

\* The answers of a device to MaxPackets step requests: the snapshot and the
\* bytes sent for it, the echo of 0xAE and a step packet, all in one format.
StepRuns ==
    UNION {{ [k \in 1..MaxPackets |->
                [frame |-> r[k],
                 bytes |-> <<CMD_STEP_NEXT>>
                           \o Packet(0, r[k].dump, Framed(fmt, r[k].section))]]
             : r \in RunsOf(StepFrames, MaxPackets) } : fmt \in Formats}

\* Snapshots of a program running freely, with the memory range it has
\* touched: none before x5 is written, 16..20 with its two words after.
ContFrames ==
    { [dump |-> DeviceDump(r, 0, e),
       section |-> IF r = 0 THEN PackLE(AllOnes) \o LE32(0)
                   ELSE LE32(16) \o LE32(20) \o LE32(3) \o LE32(7)] :
        r \in {0, 1}, e \in {0, 1} }

Ended(frame) == frame.dump[129] = 1

\* The packets of a continuous run: up to MaxStream snapshots, the last one
\* of the halted machine, all in one format.
ContRuns ==
    UNION {{ [k \in 1..Len(r) |->
                [frame |-> r[k],
                 bytes |-> Packet(1, r[k].dump, Framed(fmt, r[k].section))]]
             : r \in { q \in UNION {RunsOf(ContFrames, n) : n \in 1..MaxStream} :
                         Ended(q[Len(q)]) } } : fmt \in Formats}

\* The bytes the next step of read_pipeline_packet takes after the bytes got
\* since the sync byte, with rx waiting in the port: the sync loop reads up
\* to and including the first 0xDA, or all there is; every other step is one
\* read call.  A payload larger than what waits has the size of one byte
\* more than that.
ReadSize(got, rx) ==
    IF Len(got) = 0
    THEN IF \E i \in 1..Len(rx) : rx[i] = CMD_DUMP_ALERT
         THEN CHOOSE i \in 1..Len(rx) :
                 /\ rx[i] = CMD_DUMP_ALERT
                 /\ \A j \in 1..(i - 1) : rx[j] # CMD_DUMP_ALERT
         ELSE IF Len(rx) = 0 THEN 1 ELSE Len(rx)
    ELSE IF Len(got) = 1 THEN 1
    ELSE IF Len(got) = 2 THEN SIZE_REG_FILE + SIZE_PIPELINE
    ELSE IF Len(got) = HeaderSize THEN 4
    ELSE IF Len(got) = HeaderSize + 4 THEN (IF got[2] = 0 THEN 4 ELSE 8)
    ELSE IF got[2] = 0 THEN 8
    ELSE LET n == num_words(WordAt(got, HeaderSize + 4), WordAt(got, HeaderSize + 8))
         IN  IF n > Len(rx) THEN Len(rx) + 1 ELSE 4 * n

\* One step of read_pipeline_packet: the bytes it takes from the port, what
\* the reader has got afterwards and what it returns or raises once the
\* packet is complete.
ReadCall(got, rx) ==
    LET n     == ReadSize(got, rx)
        taken == SubSeq(rx, 1, n)
        now   == IF Len(got) = 0
                 THEN (IF taken[n] = CMD_DUMP_ALERT THEN <<CMD_DUMP_ALERT>> ELSE <<>>)
                 ELSE got \o taken
    IN  [rx |-> SubSeq(rx, n + 1, Len(rx)), got |-> now,
         result |-> read_pipeline_packet(now)]

CanRead(got, rx) == Len(rx) >= ReadSize(got, rx)

\* SerialManager.list_only_diffs(current_rf) against last_register_file
\* (<<>> for None): the whole file, or index, old and new value of the
\* registers that differ.
list_only_diffs(last_register_file, current_rf) ==
    IF last_register_file = <<>> THEN [kind |-> "full", entries |-> current_rf]
    ELSE LET differs(i) == last_register_file[i + 1] # current_rf[i + 1]
             changed == SelectSeq([k \in 1..32 |-> k - 1], differs)
         IN  [kind |-> "diff",
              entries |-> [k \in 1..Len(changed) |->
                             [reg_addr |-> changed[k],
                              old |-> last_register_file[changed[k] + 1],
                              new |-> current_rf[changed[k] + 1]]]]

\* StepByStepExecutionState.reset()
reset == StepStateInit

\* update_step without the count of the step.
update_step_KeepsStep(state, new_status, transaction) ==
    [state EXCEPT !.pipeline_status = new_status, !.changed_reg = NoChange,
                  !.atomic_mem_transaction =
                      IF transaction.occurred THEN transaction ELSE NoMemory]

\* StepByStepExecutionState.update_step(new_status, transaction)
update_step(state, new_status, transaction) ==
    LET old == state.pipeline_status.register_file
        new == new_status.register_file
        changed == {i \in 0..31 : old[i + 1] # new[i + 1]}
        first == CHOOSE i \in changed : \A j \in changed : i <= j
    IN  [current_step |-> state.current_step + 1,
         pipeline_status |-> new_status,
         changed_reg |->
            IF state.pipeline_status = NoStatus \/ changed = {} THEN NoChange
            ELSE [reg_addr |-> first, old |-> old[first + 1], new |-> new[first + 1]],
         atomic_mem_transaction |->
            IF transaction.occurred THEN transaction ELSE NoMemory]

\* SimulatedDataMemory.store_data(transaction) on the words written so far;
\* a word never written reads as 0.
store_data(memory, transaction) ==
    IF transaction.occurred /\ transaction.type # 0
    THEN LET word_addr == transaction.address \ {0, 1}
             byte_mask == Bits(transaction.type)
             current_word == IF \E m \in memory : m.addr = word_addr
                             THEN (CHOOSE m \in memory : m.addr = word_addr).value
                             ELSE {}
             new_word == {b \in current_word : (b \div 8) \notin byte_mask}
                         \cup {b \in transaction.data : (b \div 8) \in byte_mask}
         IN  {m \in memory : m.addr # word_addr}
             \cup {[addr |-> word_addr, value |-> new_word]}
    ELSE memory

program_ended(state) ==
    /\ state.pipeline_status # NoStatus
    /\ state.pipeline_status.hazard_status.program_ended = 1

Reading == {i \in DOMAIN s_tasks : s_tasks[i].phase = "reading"}

\* perform_step of the step page up to its await: a click on the step button.
\* The state is reset after the last step; otherwise backend perform_step is
\* handed to a worker thread.
PerformStep ==
    /\ \E i \in DOMAIN s_tasks : s_tasks[i].phase = "free"
    /\ s_memory' = IF s_state.current_step = 0 THEN {} ELSE s_memory
    /\ IF program_ended(s_state)
       THEN /\ s_state' = reset
            /\ UNCHANGED s_tasks
       ELSE /\ LET i == CHOOSE k \in DOMAIN s_tasks :
                           /\ s_tasks[k].phase = "free"
                           /\ \A j \in DOMAIN s_tasks : s_tasks[j].phase = "free" => k <= j
               IN  s_tasks' = [s_tasks EXCEPT ![i].phase = "queued"]
            /\ UNCHANGED s_state
    /\ UNCHANGED <<deviceVars, contVars>>
    /\ UNCHANGED <<codecVars, asmVars, loaderVars, parserVars>>

\* executor.perform_step in its worker thread: the port is opened and 0xAE
\* written.
StepRequest(i) ==
    /\ s_tasks[i].phase = "queued"
    /\ d_sent' = Append(d_sent, CMD_STEP_NEXT)
    /\ s_tasks' = [s_tasks EXCEPT ![i].phase = "reading"]
    /\ UNCHANGED <<d_rx, d_seen, d_run, d_count, s_state, s_memory, contVars>>
    /\ UNCHANGED <<codecVars, asmVars, loaderVars, parserVars>>

\* serial.Serial(port) in a worker thread while another thread holds the
\* port: where the port can not be shared the open raises.
StepOpenRaises(i) ==
    /\ s_tasks[i].phase = "queued"
    /\ Reading # {}
    /\ s_tasks' = [s_tasks EXCEPT ![i] =
                      [phase |-> "done", got |-> <<>>,
                       result |-> [NotRead EXCEPT !.status = "error"]]]
    /\ UNCHANGED <<deviceVars, s_state, s_memory, contVars>>
    /\ UNCHANGED <<codecVars, asmVars, loaderVars, parserVars>>

\* One read call of read_pipeline_packet in the worker thread of task i.
StepRead(i) ==
    /\ s_tasks[i].phase = "reading"
    /\ CanRead(s_tasks[i].got, d_rx)
    /\ \E r \in {ReadCall(s_tasks[i].got, d_rx)} :
           /\ d_rx' = r.rx
           /\ s_tasks' = [s_tasks EXCEPT ![i] =
                  IF r.result.status \in {"ok", "error"}
                  THEN [phase |-> "done", got |-> <<>>, result |-> r.result]
                  ELSE [phase |-> "reading", got |-> r.got, result |-> NotRead]]
    /\ UNCHANGED <<d_sent, d_seen, d_run, d_count, s_state, s_memory, contVars>>
    /\ UNCHANGED <<codecVars, asmVars, loaderVars, parserVars>>

\* perform_step of the step page after its await: the simulated memory
\* takes the transaction and the step state the snapshot.  An exception of
\* the worker thread, or a range patch in place of a transaction, ends the
\* handler there.
StepResume(i) ==
    /\ s_tasks[i].phase = "done"
    /\ s_tasks' = [s_tasks EXCEPT ![i] = FreeTask]
    /\ LET r == s_tasks[i].result
       IN  IF r.status = "ok" /\ r.memory.kind = "atomic"
           THEN /\ s_memory' = store_data(s_memory, r.memory)
                /\ s_state' = update_step(s_state, r.pipeline, r.memory)
           ELSE UNCHANGED <<s_state, s_memory>>
    /\ UNCHANGED <<deviceVars, contVars>>
    /\ UNCHANGED <<codecVars, asmVars, loaderVars, parserVars>>

\* The device answers the next command byte it has not answered yet with the
\* next packet of its run.
DeviceAnswer ==
    /\ x_pc = "idle"
    /\ d_seen < Len(d_sent)
    /\ d_count < Len(d_run)
    /\ d_rx' = d_rx \o d_run[d_count + 1].bytes
    /\ d_seen' = d_seen + 1
    /\ d_count' = d_count + 1
    /\ UNCHANGED <<d_sent, d_run, stepVars, contVars>>
    /\ UNCHANGED <<codecVars, asmVars, loaderVars, parserVars>>

StepInit ==
    /\ d_rx = <<>> /\ d_sent = <<>> /\ d_seen = 0 /\ d_count = 0
    /\ d_run \in StepRuns
    /\ s_state = StepStateInit /\ s_memory = {}
    /\ s_tasks = [i \in 1..MaxTasks |-> FreeTask]
    /\ x_pc = "idle" /\ x_got = <<>> /\ x_last_register_file = <<>>
    /\ x_log = <<>> /\ x_result = NotRead

InitStep == StepInit /\ CodecIdle /\ AsmIdle /\ LoaderIdle /\ ParserIdle
NextStep ==
    \/ PerformStep
    \/ \E i \in DOMAIN s_tasks : StepRequest(i)
    \/ \E i \in DOMAIN s_tasks : StepOpenRaises(i)
    \/ \E i \in DOMAIN s_tasks : StepRead(i)
    \/ \E i \in DOMAIN s_tasks : StepResume(i)
    \/ DeviceAnswer
SpecStep == InitStep /\ [][NextStep]_vars

\* Bytes left in the port's input buffer when execute_program opens it.
StaleBytes == {<<>>, <<CMD_STEP_NEXT>>}

\* execute_program: 0xCE is written.
ExecuteStart ==
    /\ x_pc = "start"
    /\ d_sent' = Append(d_sent, CMD_MODE_CONT)
    /\ x_pc' = "ack"
    /\ UNCHANGED <<d_rx, d_seen, d_run, d_count, stepVars>>
    /\ UNCHANGED <<x_got, x_last_register_file, x_log, x_result>>
    /\ UNCHANGED <<codecVars, asmVars, loaderVars, parserVars>>

\* SerialManager.wait_for_ack(0xCE): one pass of its loop, which reads a byte
\* and returns when it is the expected one.
WaitForAck ==
    /\ x_pc = "ack"
    /\ Len(d_rx) >= 1
    /\ d_rx' = Tail(d_rx)
    /\ x_pc' = IF Head(d_rx) = CMD_MODE_CONT THEN "read" ELSE "ack"
    /\ UNCHANGED <<d_sent, d_seen, d_run, d_count, stepVars>>
    /\ UNCHANGED <<x_got, x_last_register_file, x_log, x_result>>
    /\ UNCHANGED <<codecVars, asmVars, loaderVars, parserVars>>

\* The loop of execute_program: one step of read_pipeline_packet and, once
\* the packet is complete, log_formatted and the test of program_ended.  An
\* exception of the reader leaves execute_program.
ContRead ==
    /\ x_pc = "read"
    /\ CanRead(x_got, d_rx)
    /\ \E r \in {ReadCall(x_got, d_rx)} :
       LET rf == r.result.pipeline.register_file
       IN  /\ d_rx' = r.rx
           /\ IF r.result.status = "blocked"
              THEN /\ x_got' = r.got
                   /\ UNCHANGED <<x_pc, x_last_register_file, x_log, x_result>>
              ELSE IF r.result.status = "error"
              THEN /\ x_got' = <<>> /\ x_pc' = "raised"
                   /\ UNCHANGED <<x_last_register_file, x_log, x_result>>
              ELSE /\ x_got' = <<>>
                   /\ x_result' = r.result
                   /\ IF r.result.pipeline.hazard_status.program_ended = 1
                      THEN /\ x_log' = [kind |-> "final", entries |-> rf]
                           /\ x_pc' = "returned"
                           /\ UNCHANGED x_last_register_file
                      ELSE /\ x_log' = list_only_diffs(x_last_register_file, rf)
                           /\ x_last_register_file' = rf
                           /\ UNCHANGED x_pc
    /\ UNCHANGED <<d_sent, d_seen, d_run, d_count, stepVars>>
    /\ UNCHANGED <<codecVars, asmVars, loaderVars, parserVars>>

\* The device echoes the command byte.
DeviceEcho ==
    /\ x_pc # "idle"
    /\ d_seen < Len(d_sent)
    /\ d_rx' = Append(d_rx, d_sent[d_seen + 1])
    /\ d_seen' = d_seen + 1
    /\ UNCHANGED <<d_sent, d_run, d_count, stepVars, contVars>>
    /\ UNCHANGED <<codecVars, asmVars, loaderVars, parserVars>>

\* The device, in continuous mode after the echo, sends the next packet of
\* its run.
DeviceStream ==
    /\ x_pc # "idle"
    /\ d_seen >= 1
    /\ d_count < Len(d_run)
    /\ d_rx' = d_rx \o d_run[d_count + 1].bytes
    /\ d_count' = d_count + 1
    /\ UNCHANGED <<d_sent, d_seen, d_run, stepVars, contVars>>
    /\ UNCHANGED <<codecVars, asmVars, loaderVars, parserVars>>

ContInit ==
    /\ d_rx \in StaleBytes /\ d_sent = <<>> /\ d_seen = 0 /\ d_count = 0
    /\ d_run \in ContRuns
    /\ s_state = StepStateInit /\ s_memory = {} /\ s_tasks = <<>>
    /\ x_pc = "start" /\ x_got = <<>> /\ x_last_register_file = <<>>
    /\ x_log = <<>> /\ x_result = NotRead

InitCont == ContInit /\ CodecIdle /\ AsmIdle /\ LoaderIdle /\ ParserIdle
NextCont ==
    \/ ExecuteStart
    \/ WaitForAck
    \/ ContRead
    \/ DeviceEcho
    \/ DeviceStream

\* WF_vars(ContRead), with ENABLED <<ContRead>>_vars written out: a read
\* call can return when the bytes it asks for wait in the port.
ContReadFair ==
    \/ []<>~(x_pc = "read" /\ CanRead(x_got, d_rx))
    \/ []<><<ContRead>>_vars

\* The worker thread of execute_program runs whenever its read can return
\* (the port is opened with timeout=None), and the device does not stop
\* before its run is sent.
SpecCont ==
    /\ InitCont /\ [][NextCont]_vars
    /\ WF_vars(ExecuteStart) /\ WF_vars(WaitForAck) /\ ContReadFair
    /\ WF_vars(DeviceEcho) /\ WF_vars(DeviceStream)

-----------------------------------------------------------------------------
(* Continuous execution (C29)                                              *)

\* The first packet of the run whose snapshot has program_ended set.
FirstEnded ==
    d_run[CHOOSE k \in 1..Len(d_run) :
             /\ Ended(d_run[k].frame)
             /\ \A j \in 1..(k - 1) : ~Ended(d_run[j].frame)]

\* The words of a frame's dump and of its memory section.
DumpWords(frame) == [k \in 1..50 |-> WordAt(frame.dump, (k - 1) * 4)]
SectionWords(frame) ==
    [k \in 1..(Len(frame.section) \div 4) |-> WordAt(frame.section, (k - 1) * 4)]

\* C29: execute_program reads no packet before the echo of 0xCE, and it
\* eventually returns, with the status and the memory record of the first
\* packet whose hazard word has program_ended = 1.
C29_ContinuousTerminates ==
    /\ [](x_pc \in {"start", "ack"} => (x_got = <<>> /\ x_result = NotRead))
    /\ [](x_pc = "returned" =>
            LET sec == SectionWords(FirstEnded.frame)
                mem == x_result.memory
            IN  /\ x_result.pipeline
                     = PipelineStatus_unpack("RANGE_BASED", DumpWords(FirstEnded.frame))
                /\ mem.kind = "patch"
                /\ mem.min_address = sec[1] /\ mem.max_address = sec[2]
                /\ (sec[1] # AllOnes) =>
                      [k \in 1..Len(mem.memory_contents) |-> mem.memory_contents[k].data]
                         = SubSeq(sec, 3, Len(sec)))
    /\ <>(x_pc = "returned")

-----------------------------------------------------------------------------
(* The step session (C23, C28, C30)                                        *)

Busy == {i \in DOMAIN s_tasks : s_tasks[i].phase # "free"}

\* A snapshot was stored by this step.
Stored == s_state'.current_step = s_state.current_step + 1

\* C23: when a snapshot replaces the previous one, the registers reported as
\* changed are exactly the indices 0..31 whose values differ, each with its
\* old and new value.
C23_RegisterDiff ==
    [][(Stored /\ s_state.pipeline_status # NoStatus) =>
          LET old == s_state.pipeline_status.register_file
              new == s_state'.pipeline_status.register_file
              rep == s_state'.changed_reg
          IN  /\ (IF rep = NoChange THEN {} ELSE {rep.reg_addr})
                    = {i \in 0..31 : old[i + 1] # new[i + 1]}
              /\ rep # NoChange =>
                    /\ rep.old = old[rep.reg_addr + 1]
                    /\ rep.new = new[rep.reg_addr + 1]]_vars

\* C28: at most one step request is in flight and at most one thread reads
\* the port: no 0xAE is written and no reader started while an earlier
\* perform_step awaits its packet.
C28_SingleReader ==
    /\ Cardinality(Busy) <= 1
    /\ Cardinality(Reading) <= 1

\* C30: current_step counts the snapshots stored since the last reset:
\* it is 0 exactly when no snapshot is stored, and it changes only by a
\* reset or by one when a snapshot is stored.  A perform_step on a stored
\* snapshot with program_ended resets the state (step 0, no snapshot, no
\* changed register, no memory transaction), starts no request and sends
\* nothing; any other perform_step starts one request, which sends exactly
\* one 0xAE, and the snapshot its reader returns is the one stored.
C30_StepSession ==
    [][/\ (s_state'.current_step = 0) <=> (s_state'.pipeline_status = NoStatus)
       /\ s_state' # s_state =>
             \/ /\ program_ended(s_state)
                /\ s_state' = [current_step |-> 0, pipeline_status |-> NoStatus,
                               changed_reg |-> NoChange,
                               atomic_mem_transaction |-> NoMemory]
                /\ d_sent' = d_sent /\ s_tasks' = s_tasks
             \/ /\ Stored
                /\ d_sent' = d_sent
                /\ \E i \in Busy :
                      /\ s_tasks[i].phase = "done" /\ s_tasks'[i].phase = "free"
                      /\ s_state'.pipeline_status = s_tasks[i].result.pipeline
       /\ PerformStep =>
             IF program_ended(s_state)
             THEN s_state'.current_step = 0 /\ d_sent' = d_sent /\ s_tasks' = s_tasks
             ELSE s_state' = s_state /\ Cardinality(Busy') = Cardinality(Busy) + 1
       /\ d_sent' # d_sent =>
             /\ d_sent' = Append(d_sent, CMD_STEP_NEXT)
             /\ \E i \in Busy : s_tasks[i].phase = "queued" /\ s_tasks'[i].phase = "reading"
       /\ \A i \in DOMAIN s_tasks :
             /\ (s_tasks[i].phase = "queued" /\ s_tasks'[i].phase = "reading") =>
                   Len(d_sent') = Len(d_sent) + 1
             /\ s_tasks'[i].phase = "reading" => s_tasks[i].phase \in {"queued", "reading"}
             /\ (s_tasks'[i].phase = "done" /\ s_tasks'[i].result.status = "ok") =>
                   s_tasks[i].phase \in {"reading", "done"}]_vars

\* The first snapshot was of the halted machine, the next perform_step reset
\* the state, and the one after it stored the second snapshot as step 1.
C30_Witness ==
    /\ Len(d_run) = MaxPackets /\ Ended(d_run[1].frame)
    /\ Len(d_sent) = 2 /\ d_count = 2 /\ d_rx = <<>>
    /\ Busy = {}
    /\ s_state.current_step = 1
    /\ s_state.pipeline_status # NoStatus

====
